---- MODULE Spec2Model ----
(***************************************************************************)
(* Model of the UTXO sweeper planner (type Sweeper): the UTXO index, the   *)
(* dust and unconfirmed policy, chain-depth tracking, coin selection, fee  *)
(* reconciliation and change layout.                                       *)
(*                                                                         *)
(* Amounts are satoshis.  minUSD is held in US cents (the Go field is a    *)
(* float64 number of dollars); priceUSDPerBTC is held in whole dollars.    *)
(* Transaction ids and addresses are abstract strings: what the planner    *)
(* uses of them is whether NewOutPointFromStr and DecodeAddress accept     *)
(* them, and whether an address belongs to the configured public key.      *)
(***************************************************************************)
EXTENDS Integers, Sequences, FiniteSets, TLC

\* ------------------------------------------------------------------------
\* Bounds of the model
\* ------------------------------------------------------------------------
MaxIndex == 2
MaxDepth == 2
MaxOutputs == 2

\* ------------------------------------------------------------------------
\* Input alphabets
\* ------------------------------------------------------------------------
HexTxIDs == {"aa", "bb"}
TxIDs == HexTxIDs \cup {"zz"}
OwnAddr == "own"
TestChangeAddr == "tb1test_change_address"
DecodableAddrs == {OwnAddr, "addrA", "addrB"}
OutputValues == {230, 40000}
DustConfigs == {<<600, 50, 55000>>, <<50, 0, 55000>>, <<0, 0, 55000>>}
UnconfPolicies == {<<TRUE, 2, 2>>, <<FALSE, 2, 2>>, <<TRUE, 1, 1>>, <<TRUE, 0, 2>>}
ChangeSplits == {<<0, 0, 0>>, <<2, 0, 1>>, <<3, 20000, 1>>}
SplitConfigs == {<<2, 0, 1>>, <<3, 20000, 1>>, <<2, 10000, 1>>, <<3, 0, 30000>>, <<2, 0, 0>>}
WeightLists == {<<>>,
                <<[Address |-> "addrA", WeightBP |-> 7000],
                  [Address |-> "addrB", WeightBP |-> 3000]>>,
                <<[Address |-> "bad", WeightBP |-> 10000]>>,
                <<[Address |-> "addrA", WeightBP |-> 0]>>,
                <<[Address |-> "addrB", WeightBP |-> 0],
                  [Address |-> "addrA", WeightBP |-> 7000]>>}
FeeRates == {0, 1, 5}
\* An address with a byte that is not valid UTF-8 (Go "raw\xff"), and the
\* string json.Marshal writes for it (Go "raw\ufffd")
RawAddr == "raw\\xff"
CoercedAddr == "raw\\ufffd"
WalletEntries ==
  {[Address |-> "addrA", WeightBP |-> 7000], [Address |-> "addrB", WeightBP |-> 3000],
   [Address |-> "addrA", WeightBP |-> 0], [Address |-> RawAddr, WeightBP |-> 5000]}
Seeds == 0..15
CaseSeeds == {0, 5}
Casings == {"lower", "upper", "upperHRP", "upperData", "upperHRPBroken"}
WitnessStacks == {<<>>, <<<<>>>>, <<<<1, 2>>>>, <<<<48, 1>>, <<2, 3, 4>>>>}
LockTimes == {0, 500000}
EvenTotals == {0, 1, 461, 40001}
EvenFloors == {0, 300}
WeightValues == {-1, 0, 1, 3000, 7000}
WeightedTotals == {0, 1, 7, 100000}
WeightedFloors == {0, 10}
DestAddrs == {"addrA", "bad"}

UTXO(txid, vout, value, addr, confirmed) ==
  [TxID |-> txid, Vout |-> vout, ValueSats |-> value, Address |-> addr, Confirmed |-> confirmed]

\* UTXOs paying to the address of the configured public key
UTXOs ==
  {UTXO("aa", 0, 1000, OwnAddr, FALSE), UTXO("aa", 1, 50000, OwnAddr, TRUE),
   UTXO("aa", 2, 100, OwnAddr, TRUE),
   UTXO("bb", 0, 50000, OwnAddr, FALSE), UTXO("bb", 1, 1000, OwnAddr, TRUE)}

\* A UTXO whose txid NewOutPointFromStr refuses
BadTxidUTXOs == {UTXO("zz", 0, 1000, OwnAddr, TRUE)}

\* A UTXO whose address does not decode (Index accepts it in test mode only)
ForeignUTXOs == {UTXO("bb", 2, 1000, "bad", TRUE)}

\* The UTXOs offered while the change policy is explored
ChangeUTXOs ==
  {u \in UTXOs : u.ValueSats >= 1000 /\ u.TxID = "aa"} \cup BadTxidUTXOs \cup ForeignUTXOs

\* The UTXOs offered while ClearIndex is explored
ClearUTXOs == {u \in UTXOs : u.ValueSats = 1000}

\* The UTXOs offered while split change and the planner facade are explored
EvenUTXOs == {u \in UTXOs : u.TxID = "aa" /\ u.ValueSats >= 1000}

\* The outputs a caller asks for; the last one is refused for its address, or
\* in test mode for its value
TxOutputs ==
  {[Address |-> "addrA", ValueSats |-> v] : v \in OutputValues}
  \cup {[Address |-> "bad", ValueSats |-> 0]}

RECURSIVE SeqsUpTo(_, _)
SeqsUpTo(S, n) ==
  IF n = 0 THEN {<<>>}
  ELSE LET shorter == SeqsUpTo(S, n - 1)
       IN shorter \cup {Append(q, x) : q \in {r \in shorter : Len(r) = n - 1}, x \in S}

OutputLists == SeqsUpTo(TxOutputs, MaxOutputs)

\* A witness program of n bytes: all 0 for seed 0, all 255 for seed 15
ByteString(seed, n) ==
  [i \in 1..n |-> IF seed = 15 THEN 255 ELSE (seed * 31 + i * seed * 7) % 256]

\* The weight lists handed to SetSpendingWallets
WalletLists == SeqsUpTo(WalletEntries, MaxOutputs)

\* The weight lists handed to buildWeightedOutputs; WeightBP is a signed int
WeightedAddrs ==
  {[Address |-> IF w \in {0, 7000} THEN "addrA" ELSE "addrB", WeightBP |-> w] : w \in WeightValues}

WeightedAddrLists == SeqsUpTo(WeightedAddrs, MaxOutputs)

\* ------------------------------------------------------------------------
\* State of a Sweeper, and the value returned by the last call
\* ------------------------------------------------------------------------
VARIABLES
  indexedUTXOs, chainDepth, kv,
  feeRateSatsVB, minDustSats, minUSD, priceUSDPerBTC,
  allowUnconfirmed, maxUnconfInputs, maxChainDepth, testMode,
  changeSplitParts, targetChunkSats, minChunkSats, allocationByWeights,
  ret

config == <<feeRateSatsVB, minDustSats, minUSD, priceUSDPerBTC,
            allowUnconfirmed, maxUnconfInputs, maxChainDepth, testMode,
            changeSplitParts, targetChunkSats, minChunkSats, allocationByWeights>>
vars == <<indexedUTXOs, chainDepth, kv, config, ret>>

\* ------------------------------------------------------------------------
\* Pure helpers
\* ------------------------------------------------------------------------
max64(a, b) == IF a > b THEN a ELSE b

RECURSIVE SumValues(_)
SumValues(s) == IF s = <<>> THEN 0 ELSE Head(s).ValueSats + SumValues(Tail(s))

\* ceil((minUSD / price) * 1e8) with minUSD in cents
dustFromUSD(usd, price) ==
  IF usd <= 0 \/ price <= 0 THEN 0
  ELSE LET n == usd * 1000000
       IN IF n % price = 0 THEN n \div price ELSE (n \div price) + 1

\* Go's integer division, which truncates toward zero (b > 0)
quo(a, b) == IF a >= 0 THEN a \div b ELSE -((-a) \div b)

estimateTxVBytes(nIn, nOut) == 10 + nIn * 58 + nOut * 31

NewOutPointFromStrOK(txid) == txid \in HexTxIDs

DecodeAddressOK(addr) == addr \in DecodableAddrs

\* ValidateAddress with the configured key: a P2WPKH address must carry
\* hash160(pubKey), which is the address DeriveChangeAddress produces.
ValidateAddressOK(addr) == addr = OwnAddr

getChainDepth(txid) == chainDepth[txid]

\* ------------------------------------------------------------------------
\* Dust threshold
\* ------------------------------------------------------------------------
\* The threshold of checkDustThreshold and of ConsolidateAll
EffectiveDust == max64(minDustSats, dustFromUSD(minUSD, priceUSDPerBTC))

checkDustThreshold(utxo) == utxo.ValueSats >= EffectiveDust

\* The threshold of buildTransaction, which falls back to 600
BuildDust == IF EffectiveDust <= 0 THEN 600 ELSE EffectiveDust

\* ------------------------------------------------------------------------
\* Candidate filter and coin selection
\* ------------------------------------------------------------------------
\* sort.Slice on a slice of at most 12 elements is an insertion sort
InsertByValue(sorted, u) ==
  LET k == Cardinality({i \in 1..Len(sorted) : sorted[i].ValueSats <= u.ValueSats})
  IN SubSeq(sorted, 1, k) \o <<u>> \o SubSeq(sorted, k + 1, Len(sorted))

RECURSIVE SortByValue(_)
SortByValue(utxos) ==
  IF utxos = <<>> THEN <<>>
  ELSE InsertByValue(SortByValue(SubSeq(utxos, 1, Len(utxos) - 1)), utxos[Len(utxos)])

\* The longest slice that sort.Slice sorts by insertion alone (go 1.21)
MaxInsertion == 12

\* utxos with the elements at i and j exchanged
Exchange(utxos, i, j) == [utxos EXCEPT ![i] = utxos[j], ![j] = utxos[i]]

\* The orders sort.Slice may leave cpy in.  Up to MaxInsertion elements it is
\* an insertion sort, which keeps equal values in their order.  A longer slice
\* is partitioned by exchanging elements and sort.Slice does not promise to
\* keep equal values in order: the outcomes are ascending by value, with
\* equal values in the order they have once two elements changed places.
sortSlice(utxos) ==
  IF Len(utxos) <= MaxInsertion THEN {SortByValue(utxos)}
  ELSE {SortByValue(Exchange(utxos, i, j)) : i, j \in 1..Len(utxos)}

\* filterUTXOs that sorts but drops nothing
filterUTXOs_NoFilter(utxos, minValue) == SortByValue(utxos)

\* the filter loop without the cap on unconfirmed candidates
RECURSIVE FilterLoop_NoCap(_, _, _, _)
FilterLoop_NoCap(cpy, minValue, unconf, res) ==
  IF cpy = <<>> THEN res
  ELSE LET u == Head(cpy)
       IN IF u.ValueSats < minValue THEN FilterLoop_NoCap(Tail(cpy), minValue, unconf, res)
          ELSE IF ~allowUnconfirmed /\ ~u.Confirmed
            THEN FilterLoop_NoCap(Tail(cpy), minValue, unconf, res)
          ELSE FilterLoop_NoCap(Tail(cpy), minValue, unconf, Append(res, u))

RECURSIVE FilterLoop(_, _, _, _)
FilterLoop(cpy, minValue, unconf, res) ==
  IF cpy = <<>> THEN res
  ELSE LET u == Head(cpy)
       IN IF u.ValueSats < minValue THEN FilterLoop(Tail(cpy), minValue, unconf, res)
          ELSE IF ~allowUnconfirmed /\ ~u.Confirmed THEN FilterLoop(Tail(cpy), minValue, unconf, res)
          ELSE IF allowUnconfirmed /\ ~u.Confirmed
                 THEN IF unconf >= maxUnconfInputs
                        THEN FilterLoop(Tail(cpy), minValue, unconf, res)
                        ELSE FilterLoop(Tail(cpy), minValue, unconf + 1, Append(res, u))
          ELSE FilterLoop(Tail(cpy), minValue, unconf, Append(res, u))

filterUTXOs(utxos, minValue) == FilterLoop(SortByValue(utxos), minValue, 0, <<>>)

\* the greedy walk with a fee that reserves no change slot
RECURSIVE SelectLoop_NoChangeSlot(_, _, _, _)
SelectLoop_NoChangeSlot(cands, i, targetOutSats, nFixedOutputs) ==
  IF i > Len(cands) THEN [err |-> "balance is not enough for outputs + fee"]
  ELSE LET selected == SubSeq(cands, 1, i)
           totalIn == SumValues(selected)
           fee == estimateTxVBytes(i, nFixedOutputs) * feeRateSatsVB
       IN IF totalIn >= targetOutSats + fee
            THEN [err |-> "", selected |-> selected, totalIn |-> totalIn, fee |-> fee]
            ELSE SelectLoop_NoChangeSlot(cands, i + 1, targetOutSats, nFixedOutputs)

RECURSIVE SelectLoop(_, _, _, _)
SelectLoop(cands, i, targetOutSats, nFixedOutputs) ==
  IF i > Len(cands) THEN [err |-> "balance is not enough for outputs + fee"]
  ELSE LET selected == SubSeq(cands, 1, i)
           totalIn == SumValues(selected)
           fee == estimateTxVBytes(i, nFixedOutputs + 1) * feeRateSatsVB
       IN IF totalIn >= targetOutSats + fee
            THEN [err |-> "", selected |-> selected, totalIn |-> totalIn, fee |-> fee]
            ELSE SelectLoop(cands, i + 1, targetOutSats, nFixedOutputs)

selectUTXOsFor(targetOutSats, utxos, dust, nFixedOutputs) ==
  LET cands == filterUTXOs(utxos, dust)
  IN IF Len(cands) = 0 THEN [err |-> "no spendable UTXOs after filters"]
     ELSE SelectLoop(cands, 1, targetOutSats, nFixedOutputs)

\* ------------------------------------------------------------------------
\* Even and weighted splitting
\* ------------------------------------------------------------------------
\* splitEven that does not hand out the remainder
splitEven_NoRemainder(value, parts, minChunk) ==
  IF parts <= 1 \/ value <= 0 THEN <<value>>
  ELSE LET chunk0 == value \div parts
           parts1 == IF chunk0 < minChunk
                       THEN (IF value \div minChunk < 1 THEN 1 ELSE value \div minChunk)
                       ELSE parts
           chunk == IF chunk0 < minChunk THEN value \div parts1 ELSE chunk0
           rem == value - parts1 * chunk
           out == [i \in 1..parts1 |-> chunk]
       IN SelectSeq(out, LAMBDA v : v > 0)

splitEven(value, parts, minChunk) ==
  IF parts <= 1 \/ value <= 0 THEN <<value>>
  ELSE LET chunk0 == value \div parts
           parts1 == IF chunk0 < minChunk
                       THEN (IF value \div minChunk < 1 THEN 1 ELSE value \div minChunk)
                       ELSE parts
           chunk == IF chunk0 < minChunk THEN value \div parts1 ELSE chunk0
           rem == value - parts1 * chunk
           out == [i \in 1..parts1 |-> IF i <= rem THEN chunk + 1 ELSE chunk]
       IN SelectSeq(out, LAMBDA v : v > 0)

RECURSIVE SumWeights(_)
SumWeights(ws) == IF ws = <<>> THEN 0 ELSE Head(ws).WeightBP + SumWeights(Tail(ws))

\* the weighted loop whose last entry takes its proportional share
RECURSIVE WeightedLoop_NoResidual(_, _, _, _, _, _, _)
WeightedLoop_NoResidual(total, ws, minChunk, sum, i, acc, outs) ==
  IF i > Len(ws) THEN outs
  ELSE LET share == quo(total * ws[i].WeightBP, sum)
       IN IF share >= minChunk
            THEN WeightedLoop_NoResidual(total, ws, minChunk, sum, i + 1, acc + share,
                              Append(outs, [Address |-> ws[i].Address, ValueSats |-> share]))
            ELSE WeightedLoop_NoResidual(total, ws, minChunk, sum, i + 1, acc, outs)

RECURSIVE WeightedLoop(_, _, _, _, _, _, _)
WeightedLoop(total, ws, minChunk, sum, i, acc, outs) ==
  IF i > Len(ws) THEN outs
  ELSE LET share == IF i = Len(ws) THEN total - acc ELSE quo(total * ws[i].WeightBP, sum)
       IN IF share >= minChunk
            THEN WeightedLoop(total, ws, minChunk, sum, i + 1, acc + share,
                              Append(outs, [Address |-> ws[i].Address, ValueSats |-> share]))
            ELSE WeightedLoop(total, ws, minChunk, sum, i + 1, acc, outs)

\* buildWeightedOutputs that never drops an entry for its share
buildWeightedOutputs_NoFloor(total, ws, minChunk) ==
  IF Len(ws) = 0 \/ total <= 0 THEN <<>>
  ELSE IF SumWeights(ws) <= 0 THEN <<>>
  ELSE WeightedLoop(total, ws, 0, SumWeights(ws), 1, 0, <<>>)

buildWeightedOutputs(total, ws, minChunk) ==
  IF Len(ws) = 0 \/ total <= 0 THEN <<>>
  ELSE IF SumWeights(ws) <= 0 THEN <<>>
  ELSE WeightedLoop(total, ws, minChunk, SumWeights(ws), 1, 0, <<>>)

\* ------------------------------------------------------------------------
\* Transaction building
\* ------------------------------------------------------------------------
NoPlan(e) == [err |-> e, Inputs |-> <<>>, Outputs |-> <<>>, FeeSats |-> 0,
              ChangeIdxs |-> <<>>, depth |-> chainDepth]

getChangeAddress == IF testMode THEN TestChangeAddr ELSE OwnAddr

buildOutputScriptOK(addr) == testMode \/ DecodeAddressOK(addr)

\* the change layout that pays the weighted shares to the change address
ChangeLayout_WeightedToChange(change, dust, changeAddr) ==
  IF change <= dust THEN <<>>
  ELSE IF Len(allocationByWeights) > 0
    THEN [k \in 1..Len(buildWeightedOutputs(change, allocationByWeights, max64(1, dust))) |->
            [buildWeightedOutputs(change, allocationByWeights, max64(1, dust))[k]
               EXCEPT !.Address = changeAddr]]
  ELSE IF changeSplitParts > 1 /\ minChunkSats > 0
    THEN LET guess == IF targetChunkSats > 0 THEN change \div targetChunkSats ELSE 0
             parts == IF guess >= 2 THEN guess ELSE changeSplitParts
             chunks == SelectSeq(splitEven(change, parts, max64(minChunkSats, dust)),
                                 LAMBDA c : c >= dust)
         IN IF Len(chunks) = 0
              THEN <<[Address |-> changeAddr, ValueSats |-> change]>>
              ELSE [i \in 1..Len(chunks) |-> [Address |-> changeAddr, ValueSats |-> chunks[i]]]
  ELSE <<[Address |-> changeAddr, ValueSats |-> change]>>

\* The change outputs appended after the fixed outputs when change > dust
ChangeLayout(change, dust, changeAddr) ==
  IF change <= dust THEN <<>>
  ELSE IF Len(allocationByWeights) > 0
    THEN buildWeightedOutputs(change, allocationByWeights, max64(1, dust))
  ELSE IF changeSplitParts > 1 /\ minChunkSats > 0
    THEN LET guess == IF targetChunkSats > 0 THEN change \div targetChunkSats ELSE 0
             parts == IF guess >= 2 THEN guess ELSE changeSplitParts
             chunks == SelectSeq(splitEven(change, parts, max64(minChunkSats, dust)),
                                 LAMBDA c : c >= dust)
         IN IF Len(chunks) = 0
              THEN <<[Address |-> changeAddr, ValueSats |-> change]>>
              ELSE [i \in 1..Len(chunks) |-> [Address |-> changeAddr, ValueSats |-> chunks[i]]]
  ELSE <<[Address |-> changeAddr, ValueSats |-> change]>>

\* Fee reconciliation: the final outputs once changeDelta has been applied
ReconcileOutputs(finalOutputs, nFixed, changeDelta) ==
  IF Len(finalOutputs) - nFixed = 1
    THEN [finalOutputs EXCEPT ![nFixed + 1].ValueSats = @ + changeDelta]
    ELSE finalOutputs

\* fee reconciliation that never folds the residual into the fee
ReconcileFee_KeepFinal(finalFee, nChange, totalIn, totalOut) == finalFee

\* Fee reconciliation: the fee reported by the plan
ReconcileFee(finalFee, nChange, totalIn, totalOut) ==
  IF nChange = 0 THEN totalIn - totalOut ELSE finalFee

\* Assembly of the unsigned transaction and of the PSBT: "" when it succeeds
AssembleErr(selected, finalOutputs) ==
  IF \E i \in 1..Len(selected) : ~NewOutPointFromStrOK(selected[i].TxID)
    THEN "invalid txid"
  ELSE IF \E i \in 1..Len(finalOutputs) : ~buildOutputScriptOK(finalOutputs[i].Address)
    THEN "bad output script"
  ELSE IF \E i \in 1..Len(selected) : ~buildOutputScriptOK(selected[i].Address)
    THEN "bad input script"
  ELSE ""

\* the chain-depth update without the test of in.Confirmed
RECURSIVE updateChainDepth_AllInputs(_, _)
updateChainDepth_AllInputs(depth, selected) ==
  IF selected = <<>> THEN depth
  ELSE updateChainDepth_AllInputs([depth EXCEPT ![Head(selected).TxID] = @ + 1], Tail(selected))

\* setChainDepth(in.TxID, getChainDepth(in.TxID) + 1) for each unconfirmed input
RECURSIVE updateChainDepth(_, _)
updateChainDepth(depth, selected) ==
  IF selected = <<>> THEN depth
  ELSE LET in == Head(selected)
       IN updateChainDepth(IF ~in.Confirmed
                             THEN [depth EXCEPT ![in.TxID] = @ + 1]
                             ELSE depth,
                           Tail(selected))

\* the chain-depth update placed before the error returns
DepthAfter_BeforeErrors(err, selected) == updateChainDepth(chainDepth, selected)

\* The chain-depth map a plan call leaves behind
DepthAfter(err, selected) ==
  IF err = "" THEN updateChainDepth(chainDepth, selected) ELSE chainDepth

buildTransaction(utxos, outputs, changeAddr) ==
  LET dust == BuildDust
      totalOut == SumValues(outputs)
      sel == selectUTXOsFor(totalOut, utxos, dust, Len(outputs))
  IN IF totalOut <= 0 THEN NoPlan("outputs total must be > 0")
     ELSE IF sel.err # "" THEN NoPlan(sel.err)
     ELSE LET change == sel.totalIn - totalOut - sel.fee
              finalOutputs == outputs \o ChangeLayout(change, dust, changeAddr)
              nChange == Len(finalOutputs) - Len(outputs)
              finalFee == estimateTxVBytes(Len(sel.selected), Len(finalOutputs)) * feeRateSatsVB
              changeDelta == (sel.totalIn - totalOut) - finalFee
              err == IF changeDelta < 0
                       THEN "final fee overshoots; add UTXOs or reduce outputs"
                       ELSE AssembleErr(sel.selected, finalOutputs)
          IN IF err # ""
               THEN [NoPlan(err) EXCEPT !.depth = DepthAfter(err, sel.selected)]
               ELSE [err |-> "",
                     Inputs |-> sel.selected,
                     Outputs |-> ReconcileOutputs(finalOutputs, Len(outputs), changeDelta),
                     FeeSats |-> ReconcileFee(finalFee, nChange, sel.totalIn, totalOut),
                     ChangeIdxs |-> [i \in 1..nChange |-> Len(outputs) + i - 1],
                     depth |-> DepthAfter("", sel.selected)]

\* First validation failure of Spend's output loop, "" when there is none
RECURSIVE ValidateOutputs(_)
ValidateOutputs(outputs) ==
  IF outputs = <<>> THEN ""
  ELSE IF ~testMode /\ ~DecodeAddressOK(Head(outputs).Address) THEN "invalid output address"
  ELSE IF Head(outputs).ValueSats <= 0 THEN "invalid output value"
  ELSE ValidateOutputs(Tail(outputs))

SpendPlan(outputs) ==
  IF Len(outputs) = 0 THEN NoPlan("no outputs specified")
  ELSE IF ValidateOutputs(outputs) # "" THEN NoPlan(ValidateOutputs(outputs))
  ELSE buildTransaction(indexedUTXOs, outputs, getChangeAddress)

\* ConsolidateAll with a fee that counts a change output
ConsolidateAllPlan_ChangeSlot(destAddr) ==
  LET dust == EffectiveDust
      cands == filterUTXOs(indexedUTXOs, dust)
      totalIn == SumValues(cands)
      fee == estimateTxVBytes(Len(cands), 2) * feeRateSatsVB
      outputs == <<[Address |-> destAddr, ValueSats |-> totalIn - fee]>>
      err == IF totalIn <= fee \/ (totalIn - fee) < dust
               THEN "balance too low after fees for consolidation"
               ELSE AssembleErr(cands, outputs)
  IN IF ~testMode /\ ~DecodeAddressOK(destAddr) THEN NoPlan("invalid destination address")
     ELSE IF Len(cands) = 0 THEN NoPlan("no spendable UTXOs to consolidate")
     ELSE IF err # "" THEN [NoPlan(err) EXCEPT !.depth = DepthAfter(err, cands)]
     ELSE [err |-> "", Inputs |-> cands, Outputs |-> outputs, FeeSats |-> fee,
           ChangeIdxs |-> <<>>, depth |-> DepthAfter("", cands)]

ConsolidateAllPlan(destAddr) ==
  LET dust == EffectiveDust
      cands == filterUTXOs(indexedUTXOs, dust)
      totalIn == SumValues(cands)
      fee == estimateTxVBytes(Len(cands), 1) * feeRateSatsVB
      outputs == <<[Address |-> destAddr, ValueSats |-> totalIn - fee]>>
      err == IF totalIn <= fee \/ (totalIn - fee) < dust
               THEN "balance too low after fees for consolidation"
               ELSE AssembleErr(cands, outputs)
  IN IF ~testMode /\ ~DecodeAddressOK(destAddr) THEN NoPlan("invalid destination address")
     ELSE IF Len(cands) = 0 THEN NoPlan("no spendable UTXOs to consolidate")
     ELSE IF err # "" THEN [NoPlan(err) EXCEPT !.depth = DepthAfter(err, cands)]
     ELSE [err |-> "", Inputs |-> cands, Outputs |-> outputs, FeeSats |-> fee,
           ChangeIdxs |-> <<>>, depth |-> DepthAfter("", cands)]

\* ------------------------------------------------------------------------
\* Initial state: NewSweeper
\* ------------------------------------------------------------------------
Void == [op |-> "void", err |-> "", Inputs |-> <<>>, Outputs |-> <<>>,
         FeeSats |-> 0, ChangeIdxs |-> <<>>]

Returned(op, err) == [Void EXCEPT !.op = op, !.err = err]

Planned(op, r) == [op |-> op, err |-> r.err, Inputs |-> r.Inputs, Outputs |-> r.Outputs,
                   FeeSats |-> r.FeeSats, ChangeIdxs |-> r.ChangeIdxs]

NewSweeper ==
  /\ indexedUTXOs = <<>>
  /\ chainDepth = [t \in TxIDs |-> 0]
  /\ kv = {}
  /\ feeRateSatsVB = 5
  /\ minDustSats = 600
  /\ minUSD = 50
  /\ priceUSDPerBTC = 55000
  /\ allowUnconfirmed = TRUE
  /\ maxUnconfInputs = 2
  /\ maxChainDepth = 2
  /\ testMode = FALSE
  /\ changeSplitParts = 0
  /\ targetChunkSats = 0
  /\ minChunkSats = 0
  /\ allocationByWeights = <<>>

Init == NewSweeper /\ ret = Void

\* ------------------------------------------------------------------------
\* Configuration
\* ------------------------------------------------------------------------
SetFeeRate(rate) ==
  /\ feeRateSatsVB' = IF rate <= 0 THEN feeRateSatsVB ELSE rate
  /\ ret' = Returned("SetFeeRate", IF rate <= 0 THEN "fee rate must be positive" ELSE "")
  /\ UNCHANGED <<indexedUTXOs, chainDepth, kv, minDustSats, minUSD, priceUSDPerBTC,
                 allowUnconfirmed, maxUnconfInputs, maxChainDepth, testMode,
                 changeSplitParts, targetChunkSats, minChunkSats, allocationByWeights>>

SetDustRate(sats, usd, price) ==
  /\ minDustSats' = sats
  /\ minUSD' = usd
  /\ priceUSDPerBTC' = price
  /\ ret' = Void
  /\ UNCHANGED <<indexedUTXOs, chainDepth, kv, feeRateSatsVB,
                 allowUnconfirmed, maxUnconfInputs, maxChainDepth, testMode,
                 changeSplitParts, targetChunkSats, minChunkSats, allocationByWeights>>

SetTestMode(enabled) ==
  /\ testMode' = enabled
  /\ ret' = Void
  /\ UNCHANGED <<indexedUTXOs, chainDepth, kv, feeRateSatsVB, minDustSats, minUSD,
                 priceUSDPerBTC, allowUnconfirmed, maxUnconfInputs, maxChainDepth,
                 changeSplitParts, targetChunkSats, minChunkSats, allocationByWeights>>

SetUnconfirmedPolicy(allow, maxInputs, maxDepth) ==
  /\ allowUnconfirmed' = allow
  /\ maxUnconfInputs' = maxInputs
  /\ maxChainDepth' = maxDepth
  /\ ret' = Void
  /\ UNCHANGED <<indexedUTXOs, chainDepth, kv, feeRateSatsVB, minDustSats, minUSD,
                 priceUSDPerBTC, testMode,
                 changeSplitParts, targetChunkSats, minChunkSats, allocationByWeights>>

SetChangeSplit(parts, target, minChunk) ==
  /\ changeSplitParts' = parts
  /\ targetChunkSats' = target
  /\ minChunkSats' = minChunk
  /\ ret' = Void
  /\ UNCHANGED <<indexedUTXOs, chainDepth, kv, feeRateSatsVB, minDustSats, minUSD,
                 priceUSDPerBTC, allowUnconfirmed, maxUnconfInputs, maxChainDepth,
                 testMode, allocationByWeights>>

SetAllocationWeights(weights) ==
  /\ allocationByWeights' = weights
  /\ ret' = Void
  /\ UNCHANGED <<indexedUTXOs, chainDepth, kv, feeRateSatsVB, minDustSats, minUSD,
                 priceUSDPerBTC, allowUnconfirmed, maxUnconfInputs, maxChainDepth,
                 testMode, changeSplitParts, targetChunkSats, minChunkSats>>

\* ------------------------------------------------------------------------
\* Persisted allocation weights
\* ------------------------------------------------------------------------
\* encoding/json writes a string coerced to valid UTF-8
ToValidUTF8(str) == IF str = RawAddr THEN CoercedAddr ELSE str

\* json.Marshal of a []WeightedAddr: one object per entry, in order, each with
\* the members Address and WeightBP
jsonMarshal(ws) ==
  [i \in 1..Len(ws) |-> <<<<"Address", ToValidUTF8(ws[i].Address)>>,
                          <<"WeightBP", ws[i].WeightBP>>>>]

\* the value of member name of a JSON object
Member(obj, name) == obj[CHOOSE k \in 1..Len(obj) : obj[k][1] = name][2]

\* json.Unmarshal into a []WeightedAddr
jsonUnmarshal(b) ==
  [i \in 1..Len(b) |-> [Address |-> Member(b[i], "Address"),
                        WeightBP |-> Member(b[i], "WeightBP")]]

KVPut(store, key, value) == {e \in store : e[1] # key} \cup {<<key, value>>}

KVHas(store, key) == \E e \in store : e[1] = key

KVGet(store, key) == (CHOOSE e \in store : e[1] = key)[2]

AllocKey == <<"alloc", "weights">>

\* SetSpendingWallets without the test of WeightBP
RECURSIVE SetSpendingWalletsErr_NoWeightCheck(_)
SetSpendingWalletsErr_NoWeightCheck(weights) ==
  IF Len(weights) = 0 THEN ""
  ELSE IF ~testMode /\ ~DecodeAddressOK(Head(weights).Address) THEN "bad address"
  ELSE SetSpendingWalletsErr_NoWeightCheck(Tail(weights))

\* First failure of the validation loop of SetSpendingWallets, "" when none
RECURSIVE SetSpendingWalletsErr(_)
SetSpendingWalletsErr(weights) ==
  IF Len(weights) = 0 THEN ""
  ELSE IF Head(weights).WeightBP <= 0 THEN "weight must be > 0"
  ELSE IF ~testMode /\ ~DecodeAddressOK(Head(weights).Address) THEN "bad address"
  ELSE SetSpendingWalletsErr(Tail(weights))

SetSpendingWallets(weights) ==
  LET err == IF Len(weights) = 0 THEN "weights cannot be empty"
             ELSE SetSpendingWalletsErr(weights)
  IN /\ ret' = Returned("SetSpendingWallets", err)
     /\ IF err = ""
          THEN /\ allocationByWeights' = weights
               /\ kv' = KVPut(kv, AllocKey, jsonMarshal(weights))
          ELSE UNCHANGED <<allocationByWeights, kv>>
     /\ UNCHANGED <<indexedUTXOs, chainDepth, feeRateSatsVB, minDustSats, minUSD,
                    priceUSDPerBTC, allowUnconfirmed, maxUnconfInputs, maxChainDepth,
                    testMode, changeSplitParts, targetChunkSats, minChunkSats>>

LoadSpendingWallets ==
  /\ IF KVHas(kv, AllocKey)
       THEN /\ allocationByWeights' = jsonUnmarshal(KVGet(kv, AllocKey))
            /\ ret' = Returned("LoadSpendingWallets", "")
       ELSE /\ ret' = Returned("LoadSpendingWallets", "not found")
            /\ UNCHANGED allocationByWeights
  /\ UNCHANGED <<indexedUTXOs, chainDepth, kv, feeRateSatsVB, minDustSats, minUSD,
                 priceUSDPerBTC, allowUnconfirmed, maxUnconfInputs, maxChainDepth,
                 testMode, changeSplitParts, targetChunkSats, minChunkSats>>

\* ------------------------------------------------------------------------
\* The UTXO index
\* ------------------------------------------------------------------------
validateUTXOAddressOK(utxo) ==
  testMode \/ (DecodeAddressOK(utxo.Address) /\ ValidateAddressOK(utxo.Address))

\* Index without the dust check
IndexErr_NoDust(utxo) ==
  IF ~validateUTXOAddressOK(utxo) THEN "address validation failed"
  ELSE IF ~utxo.Confirmed /\ ~allowUnconfirmed THEN "unconfirmed UTXOs not allowed"
  ELSE IF ~utxo.Confirmed /\ getChainDepth(utxo.TxID) >= maxChainDepth
    THEN "chain depth exceeds maximum"
  ELSE ""

\* Index without the chain-depth check
IndexErr_NoDepth(utxo) ==
  IF ~validateUTXOAddressOK(utxo) THEN "address validation failed"
  ELSE IF ~checkDustThreshold(utxo) THEN "dust threshold check failed"
  ELSE IF ~utxo.Confirmed /\ ~allowUnconfirmed THEN "unconfirmed UTXOs not allowed"
  ELSE ""

\* The error Index returns for utxo, "" when it accepts it
IndexErr(utxo) ==
  IF ~validateUTXOAddressOK(utxo) THEN "address validation failed"
  ELSE IF ~checkDustThreshold(utxo) THEN "dust threshold check failed"
  ELSE IF ~utxo.Confirmed /\ ~allowUnconfirmed THEN "unconfirmed UTXOs not allowed"
  ELSE IF ~utxo.Confirmed /\ getChainDepth(utxo.TxID) >= maxChainDepth
    THEN "chain depth exceeds maximum"
  ELSE ""

Index(utxo) ==
  /\ ret' = Returned("Index", IndexErr(utxo))
  /\ IF IndexErr(utxo) = ""
       THEN /\ Len(indexedUTXOs) < MaxIndex
            /\ indexedUTXOs' = Append(indexedUTXOs, utxo)
            /\ kv' = KVPut(kv, <<"utxo", utxo.TxID, utxo.Vout>>, utxo)
       ELSE UNCHANGED <<indexedUTXOs, kv>>
  /\ UNCHANGED <<chainDepth, config>>

\* ClearIndex that keeps the chain-depth map
ClearIndex_KeepDepth ==
  /\ indexedUTXOs' = <<>>
  /\ ret' = Void
  /\ UNCHANGED <<chainDepth, kv, config>>

ClearIndex ==
  /\ indexedUTXOs' = <<>>
  /\ chainDepth' = [t \in TxIDs |-> 0]
  /\ ret' = Void
  /\ UNCHANGED <<kv, config>>

\* ------------------------------------------------------------------------
\* Planning
\* ------------------------------------------------------------------------
DepthInBound(depth) == \A t \in TxIDs : depth[t] <= MaxDepth

\* The outputs the caller asked for are kept with the plan Spend returns
Spend(outputs) ==
  LET r == SpendPlan(outputs)
  IN /\ DepthInBound(r.depth)
     /\ ret' = Planned("Spend", r) @@ [Request |-> IF r.err = "" THEN outputs ELSE <<>>]
     /\ chainDepth' = r.depth
     /\ UNCHANGED <<indexedUTXOs, kv, config>>

\* SpendEven: the outputs it hands to Spend, one per chunk of splitEven
EvenOutputs(destAddrs, totalSats, minChunk) ==
  LET chunks == splitEven(totalSats, Len(destAddrs), minChunk)
      limit == IF Len(chunks) > Len(destAddrs) THEN Len(destAddrs) ELSE Len(chunks)
  IN [i \in 1..limit |-> [Address |-> destAddrs[i], ValueSats |-> chunks[i]]]

\* SpendEven that hands Spend one output of minChunk for each address
SpendEvenPlan_AllFloor(destAddrs, totalSats, minChunk) ==
  IF Len(destAddrs) = 0 THEN NoPlan("no destination addresses")
  ELSE IF Len(splitEven(totalSats, Len(destAddrs), minChunk)) = 0
    THEN NoPlan("unable to build even chunks")
  ELSE SpendPlan([i \in 1..Len(destAddrs) |->
                    [Address |-> destAddrs[i], ValueSats |-> max64(1, minChunk)]])

SpendEvenPlan(destAddrs, totalSats, minChunk) ==
  IF Len(destAddrs) = 0 THEN NoPlan("no destination addresses")
  ELSE IF Len(splitEven(totalSats, Len(destAddrs), minChunk)) = 0
    THEN NoPlan("unable to build even chunks")
  ELSE SpendPlan(EvenOutputs(destAddrs, totalSats, minChunk))

\* The call and the plan's fixed outputs are kept with what SpendEven returns
SpendEven(destAddrs, totalSats, minChunk) ==
  LET r == SpendEvenPlan(destAddrs, totalSats, minChunk)
  IN /\ DepthInBound(r.depth)
     /\ ret' = Planned("SpendEven", r)
                 @@ [args |-> <<destAddrs, totalSats, minChunk>>,
                     Request |-> SubSeq(r.Outputs, 1, Len(r.Outputs) - Len(r.ChangeIdxs))]
     /\ chainDepth' = r.depth
     /\ UNCHANGED <<indexedUTXOs, kv, config>>

SpendWeightedPlan(weights, totalSats, minChunk) ==
  LET outs == buildWeightedOutputs(totalSats, weights, minChunk)
  IN IF Len(outs) = 0 THEN NoPlan("no outputs after weighting")
     ELSE SpendPlan(outs)

SpendWeighted(weights, totalSats, minChunk) ==
  LET r == SpendWeightedPlan(weights, totalSats, minChunk)
  IN /\ DepthInBound(r.depth)
     /\ ret' = Planned("SpendWeighted", r)
     /\ chainDepth' = r.depth
     /\ UNCHANGED <<indexedUTXOs, kv, config>>

SpendToWalletsPlan(totalSats, minChunk) ==
  IF Len(allocationByWeights) = 0 THEN NoPlan("no wallet weights configured")
  ELSE SpendWeightedPlan(allocationByWeights, totalSats, minChunk)

SpendToWallets(totalSats, minChunk) ==
  LET r == SpendToWalletsPlan(totalSats, minChunk)
  IN /\ DepthInBound(r.depth)
     /\ ret' = Planned("SpendToWallets", r)
     /\ chainDepth' = r.depth
     /\ UNCHANGED <<indexedUTXOs, kv, config>>

ConsolidateAll(destAddr) ==
  LET r == ConsolidateAllPlan(destAddr)
  IN /\ DepthInBound(r.depth)
     /\ ret' = Planned("ConsolidateAll", r)
     /\ chainDepth' = r.depth
     /\ UNCHANGED <<indexedUTXOs, kv, config>>

\* ------------------------------------------------------------------------
\* Bech32 / Bech32m and SegWit addresses.  A string is the sequence of its
\* bytes, a 5-bit group an integer in 0..31.
\* ------------------------------------------------------------------------
\* charset = "qpzry9x8gf2tvdw0s3jn54khce6mua7l"
charset == <<113, 112, 122, 114, 121, 57, 120, 56, 103, 102, 50, 116, 118, 100, 119, 48, 115, 51, 106, 110, 53, 52, 107, 104, 99, 101, 54, 109, 117, 97, 55, 108>>

gen == <<996825010, 642813549, 513874426, 1027748829, 705979059>>

Bech32Const == 1
Bech32mConst == 734539939

Networks == {"BitcoinMainnet", "BitcoinTestnet", "LitecoinMainnet", "LitecoinTestnet"}

\* networkConfigs[n].Bech32HRP, which equals networkConfigs[n].Bech32mHRP
Bech32HRP(network) ==
  CASE network = "BitcoinMainnet" -> <<98, 99>>
    [] network = "BitcoinTestnet" -> <<116, 98>>
    [] network = "LitecoinMainnet" -> <<108, 116, 99>>
    [] network = "LitecoinTestnet" -> <<116, 108, 116, 99>>

Bech32mHRP(network) == Bech32HRP(network)

RECURSIVE Pow2(_)
Pow2(n) == IF n = 0 THEN 1 ELSE 2 * Pow2(n - 1)

\* a ^ b of Go on non-negative integers
RECURSIVE Xor(_, _)
Xor(a, b) ==
  IF a = 0 THEN b
  ELSE IF b = 0 THEN a
  ELSE (((a % 2) + (b % 2)) % 2) + 2 * Xor(a \div 2, b \div 2)

\* the inner loop of bech32Polymod: chk ^= gen[i] for every set bit i of b
RECURSIVE PolymodGen(_, _, _)
PolymodGen(chk, b, i) ==
  IF i >= 5 THEN chk
  ELSE PolymodGen(IF (b \div Pow2(i)) % 2 = 1 THEN Xor(chk, gen[i + 1]) ELSE chk, b, i + 1)

\* one round of the outer loop of bech32Polymod
PolymodRound(chk, v) == PolymodGen(Xor((chk % Pow2(25)) * 32, v), chk \div Pow2(25), 0)

\* the outer loop over values[lo..hi], left to right, split in halves to keep
\* the evaluation shallow
RECURSIVE PolymodLoop(_, _, _, _)
PolymodLoop(values, lo, hi, chk) ==
  IF lo > hi THEN chk
  ELSE IF lo = hi THEN PolymodRound(chk, values[lo])
  ELSE LET mid == (lo + hi) \div 2
           left == PolymodLoop(values, lo, mid, chk)
       IN IF left >= 0 THEN PolymodLoop(values, mid + 1, hi, left) ELSE left

bech32Polymod(values) == PolymodLoop(values, 1, Len(values), 1)

bech32ExpandHRP(hrp) ==
  [i \in 1..Len(hrp) |-> hrp[i] \div 32] \o <<0>> \o [i \in 1..Len(hrp) |-> hrp[i] % 32]

bech32VerifyChecksum(hrp, data, constant) ==
  bech32Polymod(bech32ExpandHRP(hrp) \o data) = constant

bech32CreateChecksum(hrp, data, constant) ==
  LET polymod == Xor(bech32Polymod(bech32ExpandHRP(hrp) \o data \o <<0, 0, 0, 0, 0, 0>>),
                     constant)
  IN [i \in 1..6 |-> (polymod \div Pow2(5 * (6 - i))) % 32]

\* Bech32Encode that always uses the Bech32 constant
Bech32Encode_AlwaysBech32(hrp, data) ==
  LET combined == data \o bech32CreateChecksum(hrp, data, Bech32Const)
  IN hrp \o <<49>> \o [i \in 1..Len(combined) |-> charset[combined[i] + 1]]

Bech32Encode(hrp, data) ==
  LET constant == IF Len(data) > 0 /\ data[1] # 0 THEN Bech32mConst ELSE Bech32Const
      combined == data \o bech32CreateChecksum(hrp, data, constant)
  IN hrp \o <<49>> \o [i \in 1..Len(combined) |-> charset[combined[i] + 1]]

IsLowerLetter(c) == c >= 97 /\ c <= 122

IsUpperLetter(c) == c >= 65 /\ c <= 90

toLower(s) == [i \in 1..Len(s) |-> IF IsUpperLetter(s[i]) THEN s[i] + 32 ELSE s[i]]

\* hasLower && hasUpper
MixedCase(bech) ==
  /\ \E i \in 1..Len(bech) : IsLowerLetter(bech[i])
  /\ \E i \in 1..Len(bech) : IsUpperLetter(bech[i])

\* charsetMap[c], defined when InCharset(c)
InCharset(c) == \E v \in 1..32 : charset[v] = c

charsetMap(c) == (CHOOSE v \in 1..32 : charset[v] = c) - 1

Bech32Failure(e) == [err |-> e, hrp |-> <<>>, data |-> <<>>]

\* Bech32Decode from the search of the separator on, bech in lower case
Bech32DecodeLower(bech) ==
  LET ones == {i \in 1..Len(bech) : bech[i] = 49}
      pos == IF ones = {} THEN -1 ELSE (CHOOSE i \in ones : \A j \in ones : i <= j) - 1
      hrp == SubSeq(bech, 1, pos)
      data == SubSeq(bech, pos + 2, Len(bech))
      dataInt == [i \in 1..Len(data) |-> charsetMap(data[i])]
      constant == IF dataInt[1] = 0 THEN Bech32Const ELSE Bech32mConst
  IN IF pos < 1 \/ pos > Len(bech) - 7 THEN Bech32Failure("invalid separator position")
     ELSE IF \E i \in 1..Len(hrp) : hrp[i] < 33 \/ hrp[i] > 126
       THEN Bech32Failure("invalid HRP character")
     ELSE IF \E i \in 1..Len(data) : ~InCharset(data[i])
       THEN Bech32Failure("invalid character in data")
     ELSE IF Len(dataInt) < 7 THEN Bech32Failure("invalid data length")
     ELSE IF ~bech32VerifyChecksum(hrp, dataInt, constant) THEN Bech32Failure("invalid checksum")
     ELSE [err |-> "", hrp |-> hrp, data |-> SubSeq(dataInt, 1, Len(dataInt) - 6)]

\* Bech32Decode without the test for mixed case
Bech32Decode_NoCaseCheck(bech) ==
  IF Len(bech) < 8 \/ Len(bech) > 90 THEN Bech32Failure("invalid bech32 string length")
  ELSE Bech32DecodeLower(toLower(bech))

Bech32Decode(bech) ==
  IF Len(bech) < 8 \/ Len(bech) > 90 THEN Bech32Failure("invalid bech32 string length")
  ELSE IF MixedCase(bech) THEN Bech32Failure("mixed case in bech32 string")
  ELSE Bech32DecodeLower(toLower(bech))

\* the inner loop of the bit converters: emit groups of toBits bits while
\* bits >= toBits
RECURSIVE Drain(_, _)
Drain(st, toBits) ==
  IF st.bits >= toBits
    THEN Drain([st EXCEPT !.bits = @ - toBits,
                          !.out = Append(@, (st.acc \div Pow2(st.bits - toBits)) % Pow2(toBits))],
               toBits)
    ELSE st

\* one round of the outer loop of the bit converters; acc is kept modulo
\* 2^12 (maxAcc of convertBits), the only bits of it that are read
ConvertRound(st, value, fromBits, toBits) ==
  IF st.err # "" THEN st
  ELSE IF value < 0 \/ value \div Pow2(fromBits) # 0 THEN [st EXCEPT !.err = "invalid value"]
  ELSE Drain([st EXCEPT !.acc = (@ * Pow2(fromBits) + value) % 4096, !.bits = @ + fromBits],
             toBits)

\* the outer loop over data[lo..hi], left to right, split in halves to keep
\* the evaluation shallow
RECURSIVE ConvertLoop(_, _, _, _, _, _)
ConvertLoop(data, lo, hi, st, fromBits, toBits) ==
  IF lo > hi THEN st
  ELSE IF lo = hi THEN ConvertRound(st, data[lo], fromBits, toBits)
  ELSE LET mid == (lo + hi) \div 2
           left == ConvertLoop(data, lo, mid, st, fromBits, toBits)
       IN IF left.bits >= 0 THEN ConvertLoop(data, mid + 1, hi, left, fromBits, toBits)
          ELSE left

ConvertStart == [err |-> "", acc |-> 0, bits |-> 0, out |-> <<>>]

convert8to5(data) ==
  LET st == ConvertLoop(data, 1, Len(data), ConvertStart, 8, 5)
  IN IF st.bits > 0 THEN Append(st.out, (st.acc * Pow2(5 - st.bits)) % 32) ELSE st.out

\* convertBits(data, 5, 8, false)
convertBits(data) ==
  LET st == ConvertLoop(data, 1, Len(data), ConvertStart, 5, 8)
  IN IF st.err # "" THEN [err |-> st.err, bytes |-> <<>>]
     ELSE IF st.bits >= 5 \/ (st.acc * Pow2(8 - st.bits)) % 256 # 0
       THEN [err |-> "invalid padding", bytes |-> <<>>]
     ELSE [err |-> "", bytes |-> st.out]

SupportedNetwork(network) == network \in Networks

CreateP2WPKH(pubKeyHash, network) ==
  IF Len(pubKeyHash) # 20 THEN [err |-> "invalid pubkey hash length", addr |-> <<>>]
  ELSE IF ~SupportedNetwork(network) THEN [err |-> "unsupported network", addr |-> <<>>]
  ELSE [err |-> "", addr |-> Bech32Encode(Bech32HRP(network), <<0>> \o convert8to5(pubKeyHash))]

CreateP2TR(taprootOutputKey, network) ==
  IF Len(taprootOutputKey) # 32
    THEN [err |-> "invalid taproot output key length", addr |-> <<>>]
  ELSE IF ~SupportedNetwork(network) THEN [err |-> "unsupported network", addr |-> <<>>]
  ELSE [err |-> "",
        addr |-> Bech32Encode(Bech32mHRP(network), <<1>> \o convert8to5(taprootOutputKey))]

AddressFailure(e) == [err |-> e, Type |-> "", Network |-> "", Data |-> <<>>]

\* The HRPs of the networks differ, so the map iteration finds at most one
DecodeAddress(addr) ==
  LET dec == Bech32Decode(addr)
      nets == {n \in Networks : dec.hrp = Bech32HRP(n) \/ dec.hrp = Bech32mHRP(n)}
      decoded == convertBits(Tail(dec.data))
      version == dec.data[1]
  IN IF dec.err # "" THEN AddressFailure(dec.err)
     ELSE IF nets = {} THEN AddressFailure("unknown network")
     ELSE IF decoded.err # "" THEN AddressFailure(decoded.err)
     ELSE IF version = 0
       THEN (IF Len(decoded.bytes) # 20 THEN AddressFailure("invalid P2WPKH data length")
             ELSE [err |-> "", Type |-> "P2WPKH", Network |-> CHOOSE n \in nets : TRUE,
                   Data |-> decoded.bytes])
     ELSE IF version = 1
       THEN (IF Len(decoded.bytes) # 32 THEN AddressFailure("invalid P2TR data length")
             ELSE [err |-> "", Type |-> "P2TR", Network |-> CHOOSE n \in nets : TRUE,
                   Data |-> decoded.bytes])
     ELSE AddressFailure("unsupported witness version")

\* ------------------------------------------------------------------------
\* Transactions and their serialization.  Bytes are integers in 0..255.
\* ------------------------------------------------------------------------
\* binary.Write(LittleEndian) of a non-negative integer of n bytes
RECURSIVE LE(_, _)
LE(v, n) == IF n = 0 THEN <<>> ELSE <<v % 256>> \o LE(v \div 256, n - 1)

\* writeVarInt; lengths above 0xffffffff do not occur
writeVarInt(val) ==
  IF val < 253 THEN <<val>>
  ELSE IF val <= 65535 THEN <<253>> \o LE(val, 2)
  ELSE <<254>> \o LE(val, 4)

RECURSIVE Flatten(_)
Flatten(chunks) == IF chunks = <<>> THEN <<>> ELSE Head(chunks) \o Flatten(Tail(chunks))

serializeTxOut(txout) ==
  LE(txout.Value, 8) \o writeVarInt(Len(txout.PkScript)) \o txout.PkScript

serializeWitness(witness) ==
  writeVarInt(Len(witness))
  \o Flatten([i \in 1..Len(witness) |-> writeVarInt(Len(witness[i])) \o witness[i]])

\* Serialize that writes the witness data whatever includeWitness says
Serialize_AlwaysWitness(tx, includeWitness) ==
  LET hasWitness == \E i \in 1..Len(tx.TxIn) : Len(tx.TxIn[i].Witness) > 0
      vin == [i \in 1..Len(tx.TxIn) |->
                tx.TxIn[i].PreviousOutPoint.Hash
                \o LE(tx.TxIn[i].PreviousOutPoint.Index, 4)
                \o writeVarInt(Len(tx.TxIn[i].SignatureScript))
                \o tx.TxIn[i].SignatureScript
                \o tx.TxIn[i].Sequence]
      vout == [i \in 1..Len(tx.TxOut) |-> serializeTxOut(tx.TxOut[i])]
      witnesses == [i \in 1..Len(tx.TxIn) |-> serializeWitness(tx.TxIn[i].Witness)]
  IN LE(tx.Version, 4)
     \o (IF hasWitness THEN <<0, 1>> ELSE <<>>)
     \o writeVarInt(Len(tx.TxIn)) \o Flatten(vin)
     \o writeVarInt(Len(tx.TxOut)) \o Flatten(vout)
     \o (IF hasWitness THEN Flatten(witnesses) ELSE <<>>)
     \o LE(tx.LockTime, 4)

Serialize(tx, includeWitness) ==
  LET hasWitness == includeWitness /\ \E i \in 1..Len(tx.TxIn) : Len(tx.TxIn[i].Witness) > 0
      vin == [i \in 1..Len(tx.TxIn) |->
                tx.TxIn[i].PreviousOutPoint.Hash
                \o LE(tx.TxIn[i].PreviousOutPoint.Index, 4)
                \o writeVarInt(Len(tx.TxIn[i].SignatureScript))
                \o tx.TxIn[i].SignatureScript
                \o tx.TxIn[i].Sequence]
      vout == [i \in 1..Len(tx.TxOut) |-> serializeTxOut(tx.TxOut[i])]
      witnesses == [i \in 1..Len(tx.TxIn) |-> serializeWitness(tx.TxIn[i].Witness)]
  IN LE(tx.Version, 4)
     \o (IF hasWitness THEN <<0, 1>> ELSE <<>>)
     \o writeVarInt(Len(tx.TxIn)) \o Flatten(vin)
     \o writeVarInt(Len(tx.TxOut)) \o Flatten(vout)
     \o (IF hasWitness THEN Flatten(witnesses) ELSE <<>>)
     \o LE(tx.LockTime, 4)

\* SHA-256 twice, taken as free of collisions: the digest stands for its input
sha256Double(data) == [sha256d |-> data]

TxHash(tx) == sha256Double(Serialize(tx, FALSE))

WTxHash(tx) == sha256Double(Serialize(tx, TRUE))

\* Sequence 0xffffffff, held as its four little-endian bytes
MaxSequence == <<255, 255, 255, 255>>

NewMsgTx(version) == [Version |-> version, TxIn |-> <<>>, TxOut |-> <<>>, LockTime |-> 0]

\* ------------------------------------------------------------------------
\* The unsigned transaction and the PSBT of a plan
\* ------------------------------------------------------------------------
\* A pointer or slice that may be nil
Nil == [isNil |-> TRUE]

NonNil(v) == [isNil |-> FALSE, v |-> v]

\* NewOutPointFromStr: the txid "aa" stands for the 64 hex digits aa..aa,
\* whose bytes are kept in the order of the string
NewOutPointFromStr(hashStr, index) ==
  [Hash |-> [i \in 1..32 |-> IF hashStr = "aa" THEN 170 ELSE 187], Index |-> index]

BuildP2WPKHScript(pubKeyHash) == <<0, 20>> \o pubKeyHash

BuildP2TRScript(taprootOutput) == <<81, 32>> \o taprootOutput

\* What DecodeAddress returns for the addresses that decode: the address of
\* the configured key and "addrA" are P2WPKH, "addrB" is P2TR
DecodedAddress(addr) ==
  IF addr = OwnAddr THEN [Type |-> "P2WPKH", Data |-> ByteString(1, 20)]
  ELSE IF addr = "addrA" THEN [Type |-> "P2WPKH", Data |-> ByteString(2, 20)]
  ELSE [Type |-> "P2TR", Data |-> ByteString(3, 32)]

\* buildOutputScript, for an address it accepts
buildOutputScript(addr) ==
  IF testMode THEN <<0, 20>> \o [i \in 1..20 |-> i - 1]
  ELSE IF DecodedAddress(addr).Type = "P2WPKH" THEN BuildP2WPKHScript(DecodedAddress(addr).Data)
  ELSE BuildP2TRScript(DecodedAddress(addr).Data)

\* the unsigned transaction with its outputs added last to first
PlanTx_OutputsReversed(inputs, outputs) ==
  [NewMsgTx(2) EXCEPT
     !.TxIn = [i \in 1..Len(inputs) |->
                 [PreviousOutPoint |-> NewOutPointFromStr(inputs[i].TxID, inputs[i].Vout),
                  SignatureScript |-> <<>>, Witness |-> <<>>, Sequence |-> MaxSequence]],
     !.TxOut = [i \in 1..Len(outputs) |->
                  [Value |-> outputs[Len(outputs) + 1 - i].ValueSats,
                   PkScript |-> buildOutputScript(outputs[Len(outputs) + 1 - i].Address)]]]

\* The unsigned transaction of a plan: tx.AddTxIn for each input, tx.AddTxOut
\* for each final output
PlanTx(inputs, outputs) ==
  [NewMsgTx(2) EXCEPT
     !.TxIn = [i \in 1..Len(inputs) |->
                 [PreviousOutPoint |-> NewOutPointFromStr(inputs[i].TxID, inputs[i].Vout),
                  SignatureScript |-> <<>>, Witness |-> <<>>, Sequence |-> MaxSequence]],
     !.TxOut = [i \in 1..Len(outputs) |->
                  [Value |-> outputs[i].ValueSats,
                   PkScript |-> buildOutputScript(outputs[i].Address)]]]

NewPSBTFromUnsignedTx(tx) ==
  [UnsignedTx |-> tx,
   Inputs |-> [i \in 1..Len(tx.TxIn) |->
                 [WitnessUtxo |-> Nil, FinalScriptSig |-> Nil, FinalScriptWitness |-> <<>>]],
   Outputs |-> [i \in 1..Len(tx.TxOut) |-> [RedeemScript |-> Nil, WitnessScript |-> Nil]]]

\* The PSBT of a plan: psbt.Inputs[i].WitnessUtxo is set for each input
PlanPSBT(inputs, outputs) ==
  LET psbt == NewPSBTFromUnsignedTx(PlanTx(inputs, outputs))
  IN [psbt EXCEPT
        !.Inputs = [i \in 1..Len(inputs) |->
                      [psbt.Inputs[i] EXCEPT
                         !.WitnessUtxo = NonNil([Value |-> inputs[i].ValueSats,
                                                 PkScript |-> buildOutputScript(inputs[i].Address)])]]]

\* PSBT.Serialize without the separator that ends an output map
PSBTSerialize_NoOutputSeparator(psbt) ==
  LET pair(key, val) == writeVarInt(Len(key)) \o key \o writeVarInt(Len(val)) \o val
      global == pair(<<0>>, Serialize(psbt.UnsignedTx, FALSE)) \o <<0>>
      inputMap(input) ==
        (IF ~input.WitnessUtxo.isNil THEN pair(<<1>>, serializeTxOut(input.WitnessUtxo.v)) ELSE <<>>)
        \o (IF ~input.FinalScriptSig.isNil THEN pair(<<7>>, input.FinalScriptSig.v) ELSE <<>>)
        \o (IF Len(input.FinalScriptWitness) > 0
              THEN pair(<<8>>, serializeWitness(input.FinalScriptWitness)) ELSE <<>>)
        \o <<0>>
      outputMap(output) ==
        (IF ~output.RedeemScript.isNil THEN pair(<<0>>, output.RedeemScript.v) ELSE <<>>)
        \o (IF ~output.WitnessScript.isNil THEN pair(<<1>>, output.WitnessScript.v) ELSE <<>>)
        \o <<>>
  IN <<112, 115, 98, 116, 255>>
     \o global
     \o Flatten([i \in 1..Len(psbt.Inputs) |-> inputMap(psbt.Inputs[i])])
     \o Flatten([i \in 1..Len(psbt.Outputs) |-> outputMap(psbt.Outputs[i])])

\* PSBT.Serialize
PSBTSerialize(psbt) ==
  LET pair(key, val) == writeVarInt(Len(key)) \o key \o writeVarInt(Len(val)) \o val
      global == pair(<<0>>, Serialize(psbt.UnsignedTx, FALSE)) \o <<0>>
      inputMap(input) ==
        (IF ~input.WitnessUtxo.isNil THEN pair(<<1>>, serializeTxOut(input.WitnessUtxo.v)) ELSE <<>>)
        \o (IF ~input.FinalScriptSig.isNil THEN pair(<<7>>, input.FinalScriptSig.v) ELSE <<>>)
        \o (IF Len(input.FinalScriptWitness) > 0
              THEN pair(<<8>>, serializeWitness(input.FinalScriptWitness)) ELSE <<>>)
        \o <<0>>
      outputMap(output) ==
        (IF ~output.RedeemScript.isNil THEN pair(<<0>>, output.RedeemScript.v) ELSE <<>>)
        \o (IF ~output.WitnessScript.isNil THEN pair(<<1>>, output.WitnessScript.v) ELSE <<>>)
        \o <<0>>
  IN <<112, 115, 98, 116, 255>>
     \o global
     \o Flatten([i \in 1..Len(psbt.Inputs) |-> inputMap(psbt.Inputs[i])])
     \o Flatten([i \in 1..Len(psbt.Outputs) |-> outputMap(psbt.Outputs[i])])

\* ------------------------------------------------------------------------
\* Package functions, applied on their own
\* ------------------------------------------------------------------------
Applied(op, args, out) == [op |-> op, err |-> "", args |-> args, out |-> out]

BuildWeightedOutputs(total, ws, minChunk) ==
  /\ ret' = Applied("buildWeightedOutputs", <<total, ws, minChunk>>,
                    buildWeightedOutputs(total, ws, minChunk))
  /\ UNCHANGED <<indexedUTXOs, chainDepth, kv, config>>

\* A call of a package function that is about to be made
Pending(op, args) == [op |-> "pending", err |-> "", fn |-> op, args |-> args]

\* DecodeAddress(CreateP2WPKH(pubKeyHash, network))
RoundTripP2WPKH(pubKeyHash, network) ==
  /\ ret = Pending("RoundTripP2WPKH", [Network |-> network, Data |-> pubKeyHash])
  /\ LET created == CreateP2WPKH(pubKeyHash, network)
     IN ret' = Applied("RoundTripP2WPKH",
                       [Network |-> network, Data |-> pubKeyHash, created |-> created],
                       DecodeAddress(created.addr))
  /\ UNCHANGED <<indexedUTXOs, chainDepth, kv, config>>

\* DecodeAddress(CreateP2TR(taprootOutputKey, network))
RoundTripP2TR(taprootOutputKey, network) ==
  /\ ret = Pending("RoundTripP2TR", [Network |-> network, Data |-> taprootOutputKey])
  /\ LET created == CreateP2TR(taprootOutputKey, network)
     IN ret' = Applied("RoundTripP2TR",
                       [Network |-> network, Data |-> taprootOutputKey, created |-> created],
                       DecodeAddress(created.addr))
  /\ UNCHANGED <<indexedUTXOs, chainDepth, kv, config>>

toUpper(s) == [i \in 1..Len(s) |-> IF IsLowerLetter(s[i]) THEN s[i] - 32 ELSE s[i]]

\* bech with its last character replaced by another one of the charset
Broken(bech) == [bech EXCEPT ![Len(bech)] = IF @ = 113 THEN 112 ELSE 113]

\* The encoding bech of a string with the HRP hrp, written in a letter case
Cased(bech, hrp, casing) ==
  LET upperHRP == toUpper(SubSeq(bech, 1, Len(hrp))) \o SubSeq(bech, Len(hrp) + 1, Len(bech))
  IN CASE casing = "lower" -> bech
       [] casing = "upper" -> toUpper(bech)
       [] casing = "upperHRP" -> upperHRP
       [] casing = "upperData" -> SubSeq(bech, 1, Len(hrp)) \o
                                   toUpper(SubSeq(bech, Len(hrp) + 1, Len(bech)))
       [] casing = "upperHRPBroken" -> Broken(upperHRP)

\* Bech32Decode of an encoding of (hrp, data) written in a letter case
DecodeCased(bech, hrp, data, casing) ==
  /\ ret = Pending("Bech32Decode", [bech |-> bech, hrp |-> hrp, data |-> data, casing |-> casing])
  /\ ret' = Applied("Bech32Decode", ret.args, Bech32Decode(bech))
  /\ UNCHANGED <<indexedUTXOs, chainDepth, kv, config>>

\* tx.Serialize(false), tx.Serialize(true), tx.TxHash() and tx.WTxHash()
SerializeTx(tx) ==
  /\ ret = Pending("Serialize", tx)
  /\ ret' = Applied("Serialize", tx,
                    [legacy |-> Serialize(tx, FALSE), witness |-> Serialize(tx, TRUE),
                     TxHash |-> TxHash(tx), WTxHash |-> WTxHash(tx)])
  /\ UNCHANGED <<indexedUTXOs, chainDepth, kv, config>>

\* plan.PSBT.Serialize() on the plan the last call returned.  The plan call
\* built RawTx and PSBT; every other call replaces ret, so the mode that
\* chose the scripts is still the one in force.
SerializePSBT ==
  /\ ret.op \in {"Spend", "ConsolidateAll"}
  /\ ret.err = ""
  /\ ret' = Applied("PSBT.Serialize",
                    [Inputs |-> ret.Inputs, Outputs |-> ret.Outputs,
                     RawTx |-> PlanTx(ret.Inputs, ret.Outputs)],
                    PSBTSerialize(PlanPSBT(ret.Inputs, ret.Outputs)))
  /\ UNCHANGED <<indexedUTXOs, chainDepth, kv, config>>

\* s.filterUTXOs(utxos, dust) on an index of any length
FilterUTXOs(utxos) ==
  /\ ret = Pending("filterUTXOs", utxos)
  /\ \E cpy \in sortSlice(utxos) :
        ret' = Applied("filterUTXOs", utxos, FilterLoop(cpy, EffectiveDust, 0, <<>>))
  /\ UNCHANGED <<indexedUTXOs, chainDepth, kv, config>>

\* Index and policy: the configuration calls that decide admission
Next ==
  \/ \E d \in DustConfigs : SetDustRate(d[1], d[2], d[3])
  \/ \E p \in UnconfPolicies : SetUnconfirmedPolicy(p[1], p[2], p[3])
  \/ \E u \in UTXOs : Index(u)
  \/ \E outs \in OutputLists : Spend(outs)
  \/ \E dest \in DestAddrs : ConsolidateAll(dest)

Spec == Init /\ [][Next]_vars

\* Change layout: the configuration calls that decide the outputs
ChangeDustConfigs == {d \in DustConfigs : d[1] # 50}

ChangeModes == {c \in ChangeSplits : c[2] = 0}

NextChange ==
  \/ \E b \in BOOLEAN : SetTestMode(b)
  \/ \E d \in ChangeDustConfigs : SetDustRate(d[1], d[2], d[3])
  \/ \E c \in ChangeModes : SetChangeSplit(c[1], c[2], c[3])
  \/ \E w \in WeightLists : SetAllocationWeights(w)
  \/ \E u \in ChangeUTXOs : Index(u)
  \/ \E outs \in OutputLists : Spend(outs)
  \/ \E dest \in DestAddrs : ConsolidateAll(dest)

SpecChange == Init /\ [][NextChange]_vars

\* Resetting the index, and the fee rate
NextClear ==
  \/ \E rate \in FeeRates : SetFeeRate(rate)
  \/ \E p \in UnconfPolicies : SetUnconfirmedPolicy(p[1], p[2], p[3])
  \/ \E u \in ClearUTXOs : Index(u)
  \/ ClearIndex
  \/ \E outs \in OutputLists : Spend(outs)
  \/ \E dest \in DestAddrs : ConsolidateAll(dest)

SpecClear == Init /\ [][NextClear]_vars

\* Persisting and restoring the allocation weights
NextWallets ==
  \/ \E b \in BOOLEAN : SetTestMode(b)
  \/ \E w \in WeightLists : SetAllocationWeights(w)
  \/ \E ws \in WalletLists : SetSpendingWallets(ws)
  \/ LoadSpendingWallets

SpecWallets == Init /\ [][NextWallets]_vars

\* The address codec on its own: each behaviour makes one call
CasedEncodings ==
  {[bech |-> Cased(Bech32Encode(Bech32HRP(n), e.data), Bech32HRP(n), casing),
    hrp |-> Bech32HRP(n), data |-> e.data, casing |-> casing] :
     n \in Networks, casing \in Casings,
     e \in {[data |-> <<v>> \o convert8to5(ByteString(seed, IF v = 0 THEN 20 ELSE 32))] :
              seed \in CaseSeeds, v \in {0, 1}}}

AddressCalls ==
  {Pending("RoundTripP2WPKH", [Network |-> n, Data |-> ByteString(seed, 20)]) :
     seed \in Seeds, n \in Networks}
  \cup {Pending("RoundTripP2TR", [Network |-> n, Data |-> ByteString(seed, 32)]) :
          seed \in Seeds, n \in Networks}
  \cup {Pending("Bech32Decode", c) : c \in CasedEncodings}

InitAddress == NewSweeper /\ ret \in AddressCalls

NextAddress ==
  \/ \E seed \in Seeds, n \in Networks : RoundTripP2WPKH(ByteString(seed, 20), n)
  \/ \E seed \in Seeds, n \in Networks : RoundTripP2TR(ByteString(seed, 32), n)
  \/ \E c \in CasedEncodings : DecodeCased(c.bech, c.hrp, c.data, c.casing)

SpecAddress == InitAddress /\ [][NextAddress]_vars

\* Transaction serialization on its own: each behaviour serializes one
\* transaction, with or without witness stacks on its inputs
WitnessedTxIns ==
  {[PreviousOutPoint |-> [Hash |-> [i \in 1..32 |-> 0], Index |-> 0],
    SignatureScript |-> <<>>, Witness |-> w, Sequence |-> MaxSequence] : w \in WitnessStacks}

Transactions ==
  {[NewMsgTx(version) EXCEPT !.TxIn = ins, !.TxOut = outs, !.LockTime = lockTime] :
     version \in {1, 2}, lockTime \in LockTimes,
     ins \in SeqsUpTo(WitnessedTxIns, MaxIndex),
     outs \in {<<[Value |-> 1000, PkScript |-> <<0, 20, 170>>]>>,
               <<[Value |-> 1000, PkScript |-> <<0, 20, 170>>],
                 [Value |-> 70000, PkScript |-> <<81, 32, 187>>]>>}}

InitTx == NewSweeper /\ ret \in {Pending("Serialize", tx) : tx \in Transactions}

NextTx == \E tx \in Transactions : SerializeTx(tx)

SpecTx == InitTx /\ [][NextTx]_vars

\* Plans and the serialization of their PSBTs
NextPSBT ==
  \/ \E b \in BOOLEAN : SetTestMode(b)
  \/ \E c \in ChangeSplits : SetChangeSplit(c[1], c[2], c[3])
  \/ \E u \in ChangeUTXOs : Index(u)
  \/ \E outs \in OutputLists : Spend(outs)
  \/ \E dest \in DestAddrs : ConsolidateAll(dest)
  \/ SerializePSBT

SpecPSBT == Init /\ [][NextPSBT]_vars

\* The candidate filter on its own: indexes of two UTXOs of one value, and
\* indexes one longer than MaxInsertion in which all values but one are equal
FilterIndexes ==
  {<<u, v>> : u, v \in ClearUTXOs}
  \cup {[k \in 1..(MaxInsertion + 1) |->
           UTXO("aa", k - 1, IF k = h THEN 2000 ELSE 1000, OwnAddr, TRUE)] :
          h \in 1..(MaxInsertion + 1)}

InitFilter == NewSweeper /\ ret \in {Pending("filterUTXOs", utxos) : utxos \in FilterIndexes}

NextFilter == \E utxos \in FilterIndexes : FilterUTXOs(utxos)

SpecFilter == InitFilter /\ [][NextFilter]_vars

\* Split change: the configuration calls that decide the chunks
NextSplit ==
  \/ \E d \in DustConfigs : SetDustRate(d[1], d[2], d[3])
  \/ \E c \in SplitConfigs : SetChangeSplit(c[1], c[2], c[3])
  \/ \E u \in EvenUTXOs : Index(u)
  \/ \E outs \in OutputLists : Spend(outs)

SpecSplit == Init /\ [][NextSplit]_vars

\* Even spending
EvenAddrLists == SeqsUpTo({"addrA", "addrB"}, MaxOutputs)

NextEven ==
  \/ \E u \in EvenUTXOs : Index(u)
  \/ \E addrs \in EvenAddrLists, total \in EvenTotals, floor \in EvenFloors :
        SpendEven(addrs, total, floor)

SpecEven == Init /\ [][NextEven]_vars

\* The planner facade: every call that plans, with Index and ClearIndex
FacadeTotals == {0, 461, 40001}

NextFacade ==
  \/ \E w \in WeightLists : SetAllocationWeights(w)
  \/ \E u \in EvenUTXOs : Index(u)
  \/ ClearIndex
  \/ \E outs \in OutputLists : Spend(outs)
  \/ \E addrs \in EvenAddrLists, total \in FacadeTotals : SpendEven(addrs, total, 300)
  \/ \E w \in WeightLists, total \in FacadeTotals, minChunk \in WeightedFloors :
        SpendWeighted(w, total, minChunk)
  \/ \E total \in FacadeTotals, minChunk \in WeightedFloors : SpendToWallets(total, minChunk)
  \/ \E dest \in DestAddrs : ConsolidateAll(dest)

SpecFacade == Init /\ [][NextFacade]_vars

\* Weighted allocation on its own
NextWeighted ==
  \E total \in WeightedTotals, ws \in WeightedAddrLists, minChunk \in WeightedFloors :
     BuildWeightedOutputs(total, ws, minChunk)

SpecWeighted == Init /\ [][NextWeighted]_vars

\* ------------------------------------------------------------------------
\* Properties
\* ------------------------------------------------------------------------
PlanOps == {"Spend", "ConsolidateAll"}

AllUTXOs == UTXOs \cup BadTxidUTXOs \cup ForeignUTXOs

\* The last call returned a plan
IsPlan == ret.op \in PlanOps /\ ret.err = ""

\* The last call was a plan call that failed
PlanFailed == ret.op \in PlanOps /\ ret.err # ""

Unconfirmed(utxos) == {i \in 1..Len(utxos) : ~utxos[i].Confirmed}

UnconfirmedOf(utxos, txid) == {i \in Unconfirmed(utxos) : utxos[i].TxID = txid}

\* C1 (as claimed) - conservation: in every returned plan the inputs minus the
\* outputs equal the reported fee, and the fee is not negative.
C1_Conservation ==
  IsPlan => /\ SumValues(ret.Inputs) - SumValues(ret.Outputs) = ret.FeeSats
            /\ ret.FeeSats >= 0

\* C2 (as claimed) - every plan returned by Spend has a positive fee and inputs
\* that cover the outputs plus the fee.
C2_InputsCoverOutputsPlusFee ==
  (ret.op = "Spend" /\ ret.err = "") =>
     /\ ret.FeeSats > 0
     /\ SumValues(ret.Inputs) >= SumValues(ret.Outputs) + ret.FeeSats

\* C3 (as claimed) - every final output of a plan, fixed or change, is worth at
\* least the effective dust floor.
C3_OutputsAboveDust ==
  IsPlan => \A i \in 1..Len(ret.Outputs) : ret.Outputs[i].ValueSats >= EffectiveDust

\* C4 - every input of a plan is worth at least the effective dust threshold in
\* force and is confirmed unless unconfirmed UTXOs are allowed, whatever the
\* policy was when the UTXO was indexed.
C4_InputsPassPolicy ==
  IsPlan => \A i \in 1..Len(ret.Inputs) :
              /\ ret.Inputs[i].ValueSats >= EffectiveDust
              /\ (ret.Inputs[i].Confirmed \/ allowUnconfirmed)

\* C4 witness: a plan was produced from an index that holds a UTXO the policy
\* now in force excludes.
C4_Witness ==
  /\ IsPlan
  /\ Len(ret.Inputs) >= 1
  /\ \E i \in 1..Len(indexedUTXOs) :
        \/ indexedUTXOs[i].ValueSats < EffectiveDust
        \/ (~indexedUTXOs[i].Confirmed /\ ~allowUnconfirmed)

\* C5 (as claimed) - a plan raises the chain depth of a txid only while that
\* depth is still below maxChainDepth, so the depth never exceeds the maximum.
C5_DepthBounded ==
  [][\A t \in TxIDs : chainDepth'[t] > chainDepth[t] => chainDepth[t] < maxChainDepth]_vars

C7_DustIndexRejected ==
  [][\A u \in AllUTXOs :
       (u.ValueSats < EffectiveDust /\ Index(u)) =>
          (ret'.err # "" /\ UNCHANGED <<indexedUTXOs, chainDepth, kv>>)]_vars

\* C7 witness: Index refused a UTXO for dust after other UTXOs were indexed.
C7_Witness ==
  /\ ret.op = "Index"
  /\ ret.err = "dust threshold check failed"
  /\ Len(indexedUTXOs) >= 1

C9_DepthIncrement ==
  [][IsPlan' =>
       \A t \in TxIDs :
          chainDepth'[t] = chainDepth[t] + Cardinality(UnconfirmedOf(ret'.Inputs, t))]_vars

\* C9 witness: a plan with a confirmed and an unconfirmed input of different
\* txids left the first txid at depth 0 and the second above 0.
C9_Witness ==
  /\ IsPlan
  /\ \E i, j \in 1..Len(ret.Inputs) :
        /\ ret.Inputs[i].Confirmed
        /\ ~ret.Inputs[j].Confirmed
        /\ ret.Inputs[i].TxID # ret.Inputs[j].TxID
        /\ chainDepth[ret.Inputs[i].TxID] = 0
        /\ chainDepth[ret.Inputs[j].TxID] >= 1

\* Index refuses every unconfirmed UTXO of txid because of its chain depth
DepthExhausted(txid) == chainDepth[txid] >= maxChainDepth

\* C10 (as claimed) - once the chain depth of a txid has reached maxChainDepth,
\* every later Index of an unconfirmed UTXO of that txid fails.
C10_ExhaustedForever ==
  [][\A t \in HexTxIDs : DepthExhausted(t) => DepthExhausted(t)']_vars

\* C10 (amended) - Index refuses an unconfirmed UTXO, without appending it,
\* when unconfirmed UTXOs are not allowed or when the chain depth of its txid
\* has reached maxChainDepth; a txid that reached the maximum stays refused
\* until ClearIndex resets the map or SetUnconfirmedPolicy raises the maximum.
C10_UnconfirmedIndexRejected ==
  [][/\ \A u \in AllUTXOs :
          (~u.Confirmed /\ (~allowUnconfirmed \/ DepthExhausted(u.TxID)) /\ Index(u)) =>
             (ret'.err # "" /\ UNCHANGED indexedUTXOs)
     /\ \A t \in HexTxIDs :
          (DepthExhausted(t) /\ ~ClearIndex /\ maxChainDepth' <= maxChainDepth) =>
             DepthExhausted(t)']_vars

\* C10 witness: Index refused an unconfirmed UTXO whose txid plans had consumed
\* maxChainDepth times.
C10_Witness ==
  /\ ret.op = "Index"
  /\ ret.err = "chain depth exceeds maximum"
  /\ \E t \in HexTxIDs : chainDepth[t] >= 1 /\ DepthExhausted(t)

\* The fee the selector charges for n inputs beside nFixed outputs
SelectorFee(n, nFixed) == (10 + 58 * n + 31 * (nFixed + 1)) * feeRateSatsVB

\* The prefix lengths of the candidate list whose total covers target + fee
CoveringPrefixes(cands, target, nFixed) ==
  {n \in 1..Len(cands) : SumValues(SubSeq(cands, 1, n)) >= target + SelectorFee(n, nFixed)}

\* The candidate list is in ascending order of value
Ascending(cands) == \A i \in 1..(Len(cands) - 1) : cands[i].ValueSats <= cands[i + 1].ValueSats

\* What the selector owes for one target and one number of fixed outputs
SelectorContract(target, nFixed) ==
  LET cands == filterUTXOs(indexedUTXOs, BuildDust)
      good == CoveringPrefixes(cands, target, nFixed)
      sel == selectUTXOsFor(target, indexedUTXOs, BuildDust, nFixed)
  IN /\ Ascending(cands)
     /\ IF Len(cands) = 0 THEN sel.err = "no spendable UTXOs after filters"
        ELSE IF good = {} THEN sel.err = "balance is not enough for outputs + fee"
        ELSE /\ sel.err = ""
             /\ Len(sel.selected) \in good
             /\ \A n \in good : Len(sel.selected) <= n
             /\ sel.selected = SubSeq(cands, 1, Len(sel.selected))
             /\ sel.totalIn = SumValues(sel.selected)
             /\ sel.fee = SelectorFee(Len(sel.selected), nFixed)

\* The number of fixed outputs of the plan in ret
FixedCount == Len(ret.Outputs) - Len(ret.ChangeIdxs)

\* The fixed outputs of the plan in ret
FixedOutputs == SubSeq(ret.Outputs, 1, FixedCount)

\* C11 - the selector returns the shortest prefix of the ascending candidate
\* list whose total covers the target plus fee(n), with that fee; it fails with
\* insufficient funds when no prefix covers it and with no spendable UTXOs when
\* there is no candidate; the inputs of a plan of Spend are that prefix.
C11_ShortestPrefix ==
  /\ \A outs \in OutputLists :
        SumValues(outs) > 0 => SelectorContract(SumValues(outs), Len(outs))
  /\ (ret.op = "Spend" /\ ret.err = "") =>
        LET cands == filterUTXOs(indexedUTXOs, BuildDust)
            good == CoveringPrefixes(cands, SumValues(FixedOutputs), FixedCount)
        IN /\ Len(ret.Inputs) \in good
           /\ \A n \in good : Len(ret.Inputs) <= n
           /\ ret.Inputs = SubSeq(cands, 1, Len(ret.Inputs))

\* C11 witness: Spend returned a plan of two inputs, the first of which alone
\* did not cover the target and its fee.
C11_Witness ==
  /\ ret.op = "Spend"
  /\ ret.err = ""
  /\ Len(ret.Inputs) = 2
  /\ 1 \notin CoveringPrefixes(ret.Inputs, SumValues(FixedOutputs), FixedCount)

\* change = totalIn - sum(fixedOutputs) - estFee for the plan Spend(outs) returns
ChangeOf(inputs, outs) ==
  SumValues(inputs) - SumValues(outs) - SelectorFee(Len(inputs), Len(outs))

\* What the plan Spend returned owes when the change is compared with the
\* threshold dust; its fixed outputs are those before the change indices
ChangeRule(dust) ==
  (ret.op = "Spend" /\ ret.err = "") =>
     LET resid == SumValues(ret.Inputs) - SumValues(FixedOutputs)
     IN IF ChangeOf(ret.Inputs, FixedOutputs) <= dust
          THEN /\ ret.ChangeIdxs = <<>>
               /\ ret.Outputs = FixedOutputs
               /\ ret.FeeSats = resid
          ELSE \/ Len(ret.ChangeIdxs) >= 1
               \/ /\ Len(allocationByWeights) > 0
                  /\ SumWeights(allocationByWeights) <= 0
                  /\ ret.ChangeIdxs = <<>>
                  /\ ret.Outputs = FixedOutputs
                  /\ ret.FeeSats = resid

C13_ChangeDeltaDistributed ==
  [][\A outs \in OutputLists :
       (Spend(outs) /\ ret'.err = "" /\ Len(ret'.ChangeIdxs) >= 2) =>
          LET k == Len(ret'.ChangeIdxs)
              layout == ChangeLayout(ChangeOf(ret'.Inputs, outs), BuildDust, getChangeAddress)
              finalFee == estimateTxVBytes(Len(ret'.Inputs), Len(outs) + k) * feeRateSatsVB
              changeDelta == (SumValues(ret'.Inputs) - SumValues(outs)) - finalFee
              per == changeDelta \div k
              rem == changeDelta - per * k
          IN \A j \in 1..k :
                ret'.Outputs[ret'.ChangeIdxs[j] + 1].ValueSats =
                   layout[j].ValueSats + per + (IF j <= rem THEN 1 ELSE 0)]_vars

\* How many times u occurs in the list utxos
Occurrences(utxos, u) == Cardinality({i \in 1..Len(utxos) : utxos[i] = u})

\* The inputs are the candidates of the index at threshold dust: in ascending
\* order, every confirmed UTXO worth at least dust, and of the unconfirmed ones
\* worth at least dust as many as the policy admits, and nothing else.
AllCandidates(inputs, dust) ==
  LET eligible == {i \in Unconfirmed(indexedUTXOs) : indexedUTXOs[i].ValueSats >= dust}
      admitted == IF ~allowUnconfirmed THEN 0
                  ELSE IF Cardinality(eligible) < maxUnconfInputs THEN Cardinality(eligible)
                  ELSE maxUnconfInputs
  IN /\ Ascending(inputs)
     /\ \A u \in AllUTXOs :
           IF u.ValueSats < dust THEN Occurrences(inputs, u) = 0
           ELSE IF u.Confirmed THEN Occurrences(inputs, u) = Occurrences(indexedUTXOs, u)
           ELSE Occurrences(inputs, u) <= Occurrences(indexedUTXOs, u)
     /\ Cardinality(Unconfirmed(inputs)) = admitted

HasPositiveWeight(ws) == \E i \in 1..Len(ws) : ws[i].WeightBP > 0

\* ws has no negative weight
NoNegativeWeight(ws) == \A i \in 1..Len(ws) : ws[i].WeightBP >= 0

\* The last call was buildWeightedOutputs(total, ws, 0) with total > 0 and at
\* least one positive weight
WeightedCase ==
  /\ ret.op = "buildWeightedOutputs"
  /\ ret.args[1] > 0
  /\ ret.args[3] = 0
  /\ HasPositiveWeight(ret.args[2])

\* C15 (as claimed) - for every total > 0 and every weight list with at least
\* one positive weight, the values of buildWeightedOutputs(total, ws, 0) sum
\* to total.
C15_WeightedSumAnyWeights ==
  WeightedCase => SumValues(ret.out) = ret.args[1]

\* C15 (amended) - for every total > 0 and every weight list without negative
\* weights and with at least one positive weight, the values of
\* buildWeightedOutputs(total, ws, 0) sum to total.
C15_WeightedSumPreserved ==
  (WeightedCase /\ NoNegativeWeight(ret.args[2])) => SumValues(ret.out) = ret.args[1]

\* C15 witness: a split with floor 0 over two positive weights in which the
\* proportional shares do not add up, so that the last entry took the residual.
C15_Witness ==
  /\ ret.op = "buildWeightedOutputs"
  /\ ret.args[3] = 0
  /\ Len(ret.args[2]) = 2
  /\ \A i \in 1..2 : ret.args[2][i].WeightBP > 0
  /\ Len(ret.out) = 2
  /\ ret.out[2].ValueSats * SumWeights(ret.args[2]) # ret.args[1] * ret.args[2][2].WeightBP

\* SetSpendingWallets refuses ws
WalletsRefused(ws) ==
  \/ Len(ws) = 0
  \/ \E i \in 1..Len(ws) : ws[i].WeightBP <= 0
  \/ ~testMode /\ \E i \in 1..Len(ws) : ~DecodeAddressOK(ws[i].Address)

\* SetSpendingWallets and LoadSpendingWallets but for the restored list:
\* refusals change nothing, a success sets the list and stores it under
\* alloc:weights, a load without a stored list fails and changes nothing.
WalletsFrame ==
  /\ \A ws \in WalletLists :
        SetSpendingWallets(ws) =>
           IF WalletsRefused(ws)
             THEN ret'.err # "" /\ UNCHANGED <<allocationByWeights, kv>>
             ELSE /\ ret'.err = ""
                  /\ allocationByWeights' = ws
                  /\ KVHas(kv', AllocKey)
                  /\ \A e \in kv' : e[1] # AllocKey => e \in kv
  /\ LoadSpendingWallets =>
        IF KVHas(kv, AllocKey)
          THEN ret'.err = "" /\ UNCHANGED kv
          ELSE ret'.err # "" /\ UNCHANGED <<allocationByWeights, kv>>

\* The list a LoadSpendingWallets restores from store
Restored(store) == jsonUnmarshal(KVGet(store, AllocKey))

\* C16 (as claimed) - SetSpendingWallets refuses an empty list, a weight <= 0
\* and, outside test mode, an undecodable address, changing nothing; on success
\* it stores ws, and a following LoadSpendingWallets restores a list equal to
\* ws; LoadSpendingWallets without a stored list fails and changes nothing.
C16_WalletsRoundTrip ==
  [][/\ WalletsFrame
     /\ \A ws \in WalletLists :
          (SetSpendingWallets(ws) /\ ret'.err = "") => Restored(kv') = ws
     /\ (LoadSpendingWallets /\ ret'.err = "") => allocationByWeights' = Restored(kv)]_vars

\* C16 (amended) - as claimed, except that the restored list equals ws with
\* every address coerced to valid UTF-8: it equals ws when all addresses are
\* valid UTF-8, which is always so outside test mode.
C16_WalletsRoundTripUTF8 ==
  [][/\ WalletsFrame
     /\ \A ws \in WalletLists :
          (SetSpendingWallets(ws) /\ ret'.err = "") =>
             /\ Len(Restored(kv')) = Len(ws)
             /\ \A i \in 1..Len(ws) :
                   /\ Restored(kv')[i].WeightBP = ws[i].WeightBP
                   /\ Restored(kv')[i].Address = ToValidUTF8(ws[i].Address)
             /\ (\A i \in 1..Len(ws) : ws[i].Address # RawAddr) => Restored(kv') = ws
             /\ ~testMode => Restored(kv') = ws
     /\ (LoadSpendingWallets /\ ret'.err = "") => allocationByWeights' = Restored(kv)]_vars

\* C16 witness: LoadSpendingWallets restored a list of two different entries.
C16_Witness ==
  /\ ret.op = "LoadSpendingWallets"
  /\ ret.err = ""
  /\ Len(allocationByWeights) = 2
  /\ allocationByWeights[1] # allocationByWeights[2]
  /\ allocationByWeights = Restored(kv)

\* C17 - for every supported network and every 20-byte hash, decoding the
\* created P2WPKH address succeeds and returns (P2WPKH, network, hash); for
\* every 32-byte key, decoding the created P2TR address succeeds and returns
\* (P2TR, network, key); the two kinds share the HRP of the network and differ
\* by the witness version the address carries.
C17_AddressRoundTrip ==
  (ret.op \in {"RoundTripP2WPKH", "RoundTripP2TR"}) =>
     LET kind == IF ret.op = "RoundTripP2WPKH" THEN "P2WPKH" ELSE "P2TR"
         dec == Bech32Decode(ret.args.created.addr)
     IN /\ ret.args.created.err = ""
        /\ ret.out = [err |-> "", Type |-> kind, Network |-> ret.args.Network,
                      Data |-> ret.args.Data]
        /\ dec.hrp = Bech32HRP(ret.args.Network)
        /\ dec.hrp = Bech32mHRP(ret.args.Network)
        /\ dec.data[1] = (IF kind = "P2WPKH" THEN 0 ELSE 1)

\* C17 witness: a P2TR address of the Litecoin testnet, created from a key
\* with different bytes, was decoded.
C17_Witness ==
  /\ ret.op = "RoundTripP2TR"
  /\ ret.args.Network = "LitecoinTestnet"
  /\ ret.args.Data[1] # ret.args.Data[2]
  /\ ret.out.Type = "P2TR"
  /\ Len(ret.out.Data) = 32

\* C18 - Bech32Decode refuses every string with a lower-case and an upper-case
\* letter, valid encoding or not; the all-lower-case and the all-upper-case
\* writing of an encoding decode to the same HRP and data.
C18_MixedCaseRejected ==
  (ret.op = "Bech32Decode") =>
     /\ MixedCase(ret.args.bech) => ret.out.err # ""
     /\ ret.args.casing \in {"upperHRP", "upperData", "upperHRPBroken"} =>
           MixedCase(ret.args.bech)
     /\ ret.args.casing \in {"lower", "upper"} =>
           ret.out = [err |-> "", hrp |-> ret.args.hrp, data |-> ret.args.data]

\* C18 witness: an encoding that decodes in lower case was refused with its
\* HRP in upper case.
C18_Witness ==
  /\ ret.op = "Bech32Decode"
  /\ ret.args.casing = "upperHRP"
  /\ ret.out.err = "mixed case in bech32 string"
  /\ Bech32Decode(toLower(ret.args.bech)).err = ""

\* tx without any witness data
StripWitness(tx) ==
  [tx EXCEPT !.TxIn = [i \in 1..Len(tx.TxIn) |-> [tx.TxIn[i] EXCEPT !.Witness = <<>>]]]

\* some input of tx has a witness stack that is not empty
HasWitnessData(tx) == \E i \in 1..Len(tx.TxIn) : Len(tx.TxIn[i].Witness) > 0

\* C19 - Serialize(true) differs from Serialize(false), and so the wtxid from
\* the txid, exactly when some input has a non-empty witness stack; Serialize(false)
\* is the same as for the transaction without any witness data.
C19_TxidVsWtxid ==
  (ret.op = "Serialize") =>
     /\ (ret.out.witness # ret.out.legacy) <=> HasWitnessData(ret.args)
     /\ (ret.out.WTxHash # ret.out.TxHash) <=> HasWitnessData(ret.args)
     /\ ret.out.legacy = Serialize(StripWitness(ret.args), FALSE)
     /\ ret.out.TxHash = TxHash(StripWitness(ret.args))

\* C19 witness: a transaction of two inputs, one with and one without a
\* witness stack, was serialized both ways.
C19_Witness ==
  /\ ret.op = "Serialize"
  /\ Len(ret.args.TxIn) = 2
  /\ ret.args.TxIn[1].Witness = <<>>
  /\ Len(ret.args.TxIn[2].Witness) = 2
  /\ ret.out.witness # ret.out.legacy

\* Reading a PSBT back: a varint at pos, as its value and the position after it
ReadVarInt(b, pos) ==
  IF b[pos] < 253 THEN [val |-> b[pos], next |-> pos + 1]
  ELSE IF b[pos] = 253 THEN [val |-> b[pos + 1] + 256 * b[pos + 2], next |-> pos + 3]
  ELSE [val |-> -1, next |-> Len(b) + 1]

\* The key-value pairs from pos up to the separator 0x00, and the position
\* after it; ok is FALSE when the bytes end before the map does
RECURSIVE ReadMap(_, _, _)
ReadMap(b, pos, pairs) ==
  IF pos > Len(b) THEN [ok |-> FALSE, pairs |-> pairs, next |-> pos]
  ELSE IF b[pos] = 0 THEN [ok |-> TRUE, pairs |-> pairs, next |-> pos + 1]
  ELSE LET keyLen == ReadVarInt(b, pos)
           keyEnd == keyLen.next + keyLen.val - 1
       IN IF keyLen.val < 0 \/ keyEnd >= Len(b)
            THEN [ok |-> FALSE, pairs |-> pairs, next |-> pos]
            ELSE LET valLen == ReadVarInt(b, keyEnd + 1)
                     valEnd == valLen.next + valLen.val - 1
                 IN IF valLen.val < 0 \/ valEnd > Len(b)
                      THEN [ok |-> FALSE, pairs |-> pairs, next |-> pos]
                      ELSE ReadMap(b, valEnd + 1,
                                   Append(pairs, [key |-> SubSeq(b, keyLen.next, keyEnd),
                                                  val |-> SubSeq(b, valLen.next, valEnd)]))

\* The maps from pos to the end of the bytes; <<>> when a map is cut short
RECURSIVE ReadMaps(_, _, _)
ReadMaps(b, pos, maps) ==
  IF pos > Len(b) THEN maps
  ELSE LET m == ReadMap(b, pos, <<>>)
       IN IF m.ok THEN ReadMaps(b, m.next, Append(maps, m.pairs)) ELSE <<>>

\* The integer whose little-endian bytes are b
RECURSIVE FromLE(_)
FromLE(b) == IF b = <<>> THEN 0 ELSE Head(b) + 256 * FromLE(Tail(b))

PSBTMagic == <<112, 115, 98, 116, 255>>

\* C20 - The PSBT of a plan serializes as the magic bytes, a global map with
\* the single key 0x00 holding the legacy serialization of the unsigned
\* transaction, then one map per input holding only a witness_utxo (key 0x01)
\* of the value of that plan input, then one empty map per output, each map
\* ended by 0x00.
C20_PSBTLayout ==
  (ret.op = "PSBT.Serialize") =>
     LET plan == ret.args
         nIn == Len(plan.Inputs)
         nOut == Len(plan.Outputs)
         maps == ReadMaps(ret.out, Len(PSBTMagic) + 1, <<>>)
     IN /\ SubSeq(ret.out, 1, Len(PSBTMagic)) = PSBTMagic
        /\ Len(maps) = 1 + nIn + nOut
        /\ maps[1] = <<[key |-> <<0>>, val |-> Serialize(plan.RawTx, FALSE)]>>
        /\ Len(plan.RawTx.TxIn) = nIn
        /\ Len(plan.RawTx.TxOut) = nOut
        /\ \A i \in 1..nIn :
              /\ Len(maps[1 + i]) = 1
              /\ maps[1 + i][1].key = <<1>>
              /\ Len(maps[1 + i][1].val) >= 8
              /\ FromLE(SubSeq(maps[1 + i][1].val, 1, 8)) = plan.Inputs[i].ValueSats
        /\ \A j \in 1..nOut : maps[1 + nIn + j] = <<>>

\* C20 witness: the PSBT of a plan with two inputs and at least two outputs
\* was serialized.
C20_Witness ==
  /\ ret.op = "PSBT.Serialize"
  /\ Len(ret.args.Inputs) = 2
  /\ Len(ret.args.Outputs) >= 2
  /\ Len(ReadMaps(ret.out, 6, <<>>)) >= 5

\* The outputs of a weighted split in which entry i < n is owed
\* Div(total * weight_i, sum), the last entry the residual of what was emitted
\* before it, and an entry is emitted only when its share reaches floor
WeightedShares(total, ws, floor, Div(_, _)) ==
  LET n == Len(ws)
      prop == [i \in 1..(n - 1) |->
                 [Address |-> ws[i].Address,
                  ValueSats |-> Div(total * ws[i].WeightBP, SumWeights(ws))]]
      kept == SelectSeq(prop, LAMBDA o : o.ValueSats >= floor)
      last == [Address |-> ws[n].Address, ValueSats |-> total - SumValues(kept)]
  IN IF last.ValueSats >= floor THEN Append(kept, last) ELSE kept

\* floor(a / b) for b > 0
FloorDiv(a, b) == a \div b

\* The last call was buildWeightedOutputs with total > 0 and a positive sum of
\* weights
WeightedCall ==
  /\ ret.op = "buildWeightedOutputs"
  /\ ret.args[1] > 0
  /\ SumWeights(ret.args[2]) > 0

\* C21 (as claimed) - each entry but the last is owed floor(total * weight_i /
\* sum), the last the residual of what was emitted before it; an entry is
\* emitted only if its share >= floor, in the order of ws; 100000 over
\* (A, 7000), (B, 3000) with floor 10 gives A = 70000, B = 30000.
C21_WeightedSharesFloor ==
  WeightedCall =>
     /\ ret.out = WeightedShares(ret.args[1], ret.args[2], ret.args[3], FloorDiv)
     /\ \A k \in 1..Len(ret.out) : ret.out[k].ValueSats >= ret.args[3]

\* C21 (amended) - for total > 0 and a positive sum of weights the share of an
\* entry but the last is total * weight_i / sum truncated toward zero, which is
\* the floor when weight_i >= 0; the rest as claimed.  Without an entry, with
\* total <= 0 or with a sum of weights <= 0 nothing is emitted.
C21_WeightedSharesTruncated ==
  /\ WeightedCall =>
        /\ ret.out = WeightedShares(ret.args[1], ret.args[2], ret.args[3], quo)
        /\ NoNegativeWeight(ret.args[2]) =>
              ret.out = WeightedShares(ret.args[1], ret.args[2], ret.args[3], FloorDiv)
        /\ \A k \in 1..Len(ret.out) : ret.out[k].ValueSats >= ret.args[3]
        /\ ret.args = <<100000, <<[Address |-> "addrA", WeightBP |-> 7000],
                                  [Address |-> "addrB", WeightBP |-> 3000]>>, 10>>
              => ret.out = <<[Address |-> "addrA", ValueSats |-> 70000],
                             [Address |-> "addrB", ValueSats |-> 30000]>>
  /\ (ret.op = "buildWeightedOutputs" /\ ~WeightedCall) => ret.out = <<>>

\* C21 witness: with floor 10 the first of two entries was dropped for its
\* share and the last took the whole total.
C21_Witness ==
  /\ WeightedCall
  /\ ret.args[3] = 10
  /\ Len(ret.args[2]) = 2
  /\ Len(ret.out) = 1
  /\ ret.out[1] = [Address |-> ret.args[2][2].Address, ValueSats |-> ret.args[1]]

\* The positions of utxos that hold the UTXO u
PositionsOf(utxos, u) == {k \in 1..Len(utxos) : utxos[k] = u}

\* C22 (as claimed) - candidates are ascending by value, and two candidates of
\* the same value appear in the order in which they were indexed.
C22_StableSort ==
  (ret.op = "filterUTXOs") =>
     /\ Ascending(ret.out)
     /\ \A a, b \in 1..Len(ret.out) :
           (a < b /\ ret.out[a].ValueSats = ret.out[b].ValueSats) =>
              \E i \in PositionsOf(ret.args, ret.out[a]), j \in PositionsOf(ret.args, ret.out[b]) :
                 i <= j

\* The first n elements of s, or all of them when there are fewer
FirstN(s, n) == SubSeq(s, 1, IF Len(s) < n THEN Len(s) ELSE n)

\* The elements of a list of UTXOs, as a set
Elements(utxos) == {utxos[k] : k \in 1..Len(utxos)}

\* C23 (as claimed) - with allowUnconfirmed, the unconfirmed candidates are the
\* first maxUnconfInputs non-dust unconfirmed UTXOs in the order in which they
\* were indexed.
C23_FirstIndexedUnconfirmed ==
  allowUnconfirmed =>
     LET offered == SelectSeq(indexedUTXOs,
                              LAMBDA u : ~u.Confirmed /\ u.ValueSats >= EffectiveDust)
         admitted == SelectSeq(filterUTXOs(indexedUTXOs, EffectiveDust),
                               LAMBDA u : ~u.Confirmed)
     IN Elements(admitted) = Elements(FirstN(offered, maxUnconfInputs))

\* The last call was a Spend that returned a plan in split-change mode with a
\* change above the threshold of buildTransaction
SplitCase ==
  /\ ret.op = "Spend"
  /\ ret.err = ""
  /\ Len(allocationByWeights) = 0
  /\ changeSplitParts > 1
  /\ minChunkSats > 0
  /\ ChangeOf(ret.Inputs, FixedOutputs) > BuildDust

\* The number of chunks split-change mode owes for a change
SplitParts(change) ==
  LET wanted == IF targetChunkSats > 0 /\ change \div targetChunkSats >= 2
                  THEN change \div targetChunkSats
                  ELSE changeSplitParts
      floor == max64(minChunkSats, BuildDust)
  IN IF change \div wanted < floor THEN max64(1, change \div floor) ELSE wanted

\* C24 - in split-change mode the change outputs laid out before fee
\* reconciliation are SplitParts(change) chunks that sum to change, differ by at
\* most 1 satoshi with the larger ones first, and go to the change address; the
\* plan keeps that many change outputs, all to the change address.
C24_SplitChange ==
  SplitCase =>
     LET change == ChangeOf(ret.Inputs, FixedOutputs)
         layout == ChangeLayout(change, BuildDust, getChangeAddress)
     IN /\ Len(layout) = SplitParts(change)
        /\ SumValues(layout) = change
        /\ \A i, j \in 1..Len(layout) :
              i <= j => /\ layout[i].ValueSats >= layout[j].ValueSats
                        /\ layout[i].ValueSats - layout[j].ValueSats <= 1
        /\ \A i \in 1..Len(layout) : layout[i].Address = getChangeAddress
        /\ Len(ret.ChangeIdxs) = Len(layout)
        /\ \A i \in 1..Len(ret.ChangeIdxs) :
              ret.Outputs[ret.ChangeIdxs[i] + 1].Address = getChangeAddress

\* C24 witness: a plan whose change was split in two chunks that differ by one
\* satoshi.
C24_Witness ==
  /\ SplitCase
  /\ Len(ret.ChangeIdxs) = 2
  /\ ChangeOf(ret.Inputs, FixedOutputs) % 2 = 1

\* The outputs the change mode in force owes for the change of the plan in
\* ret, before fee reconciliation: the emitted entries of the weight list, or
\* outputs to the change address
ChangeOwed ==
  LET change == ChangeOf(ret.Inputs, ret.Request)
  IN IF Len(allocationByWeights) > 0
       THEN WeightedShares(change, allocationByWeights, max64(1, BuildDust), quo)
       ELSE [k \in 1..Len(ret.ChangeIdxs) |-> [Address |-> getChangeAddress]]

\* C25 - every index in plan.ChangeIdxs points to an output of plan.Outputs
\* that is not one of the caller's fixed outputs; the k-th change output goes
\* to the change address, or with a weight list to the address of the k-th
\* entry of the list that was emitted.  ConsolidateAll has no change index.
C25_ChangeIdxsAddresses ==
  /\ (ret.op = "ConsolidateAll" /\ ret.err = "") => ret.ChangeIdxs = <<>>
  /\ (ret.op = "Spend" /\ ret.err = "") =>
        \A k \in 1..Len(ret.ChangeIdxs) :
           /\ ret.ChangeIdxs[k] >= Len(ret.Request)
           /\ ret.ChangeIdxs[k] < Len(ret.Outputs)
           /\ Len(allocationByWeights) > 0 =>
                 /\ Len(ret.ChangeIdxs) = Len(ChangeOwed)
                 /\ \E e \in 1..Len(allocationByWeights) :
                       ret.Outputs[ret.ChangeIdxs[k] + 1].Address = allocationByWeights[e].Address
           /\ k <= Len(ChangeOwed)
           /\ ret.Outputs[ret.ChangeIdxs[k] + 1].Address = ChangeOwed[k].Address

\* C25 witness: a plan whose two change outputs go to the two addresses of
\* the weight list.
C25_Witness ==
  /\ ret.op = "Spend"
  /\ ret.err = ""
  /\ Len(allocationByWeights) = 2
  /\ Len(ret.ChangeIdxs) = 2
  /\ ret.Outputs[ret.ChangeIdxs[1] + 1].Address # ret.Outputs[ret.ChangeIdxs[2] + 1].Address

\* What a SpendEven that returned a plan owes for its fixed outputs, but for
\* the floor: a prefix of addrs in order, values that sum to total and differ
\* by at most 1 satoshi
EvenShape(r) ==
  LET addrs == r.args[1]
      fixed == r.Request
  IN /\ Len(fixed) >= 1
     /\ Len(fixed) <= Len(addrs)
     /\ fixed = SubSeq(r.Outputs, 1, Len(fixed))
     /\ \A i \in 1..Len(fixed) : fixed[i].Address = addrs[i]
     /\ SumValues(fixed) = r.args[2]
     /\ \A i, j \in 1..Len(fixed) : fixed[i].ValueSats - fixed[j].ValueSats <= 1

\* A SpendEven that was rejected changed nothing, and one without addresses
\* or with total <= 0 was rejected
EvenRejected(r) ==
  /\ (Len(r.args[1]) = 0 \/ r.args[2] <= 0) => r.err # ""
  /\ r.err # "" => UNCHANGED <<indexedUTXOs, chainDepth, kv, config>>

\* C26 (as claimed) - the fixed outputs of SpendEven go to a prefix of addrs in
\* order, sum to total, differ by at most 1 satoshi and are each >= floor; an
\* empty list or total <= 0 is rejected without changing the state.
C26_EvenOutputsAboveFloor ==
  [][(ret'.op = "SpendEven") =>
       /\ EvenRejected(ret')
       /\ ret'.err = "" =>
             /\ EvenShape(ret')
             /\ \A i \in 1..Len(ret'.Request) : ret'.Request[i].ValueSats >= ret'.args[3]]_vars

\* C26 (amended) - as claimed, except that the outputs are each >= floor only
\* when total >= floor; when total < floor there is one output of total.
C26_EvenOutputs ==
  [][(ret'.op = "SpendEven") =>
       /\ EvenRejected(ret')
       /\ ret'.err = "" =>
             /\ EvenShape(ret')
             /\ IF ret'.args[2] >= ret'.args[3]
                  THEN \A i \in 1..Len(ret'.Request) :
                          ret'.Request[i].ValueSats >= ret'.args[3]
                  ELSE Len(ret'.Request) = 1]_vars

\* C26 witness: SpendEven paid two addresses amounts that differ by 1 satoshi.
C26_Witness ==
  /\ ret.op = "SpendEven"
  /\ ret.err = ""
  /\ Len(ret.Request) = 2
  /\ ret.Request[1].ValueSats = ret.Request[2].ValueSats + 1
  /\ ret.Request[1].ValueSats >= ret.args[3]

\* C27 - the inputs of every plan are pairwise distinct outpoints (TxID, Vout),
\* also after the same outpoint was indexed more than once.
C27_DistinctOutpoints ==
  (ret.op \in PlanOps /\ ret.err = "") =>
    \A i, j \in 1..Len(ret.Inputs) :
      (ret.Inputs[i].TxID = ret.Inputs[j].TxID /\ ret.Inputs[i].Vout = ret.Inputs[j].Vout)
        => i = j

FacadeOps == {"Spend", "SpendEven", "SpendWeighted", "SpendToWallets", "ConsolidateAll"}

\* the candidates of a planning call: Spend and the calls that end in Spend
\* filter with the threshold of buildTransaction, ConsolidateAll with its own
CandidatesOf(op, utxos) ==
  filterUTXOs(utxos, IF op = "ConsolidateAll" THEN EffectiveDust ELSE BuildDust)

C29_PlanShape ==
  /\ (ret.op = "Spend" /\ ret.err = "") =>
        LET n == Len(ret.Request)
        IN /\ n >= 1
           /\ Len(ret.Outputs) >= n
           /\ SubSeq(ret.Outputs, 1, n) = ret.Request
           /\ ret.ChangeIdxs = [k \in 1..(Len(ret.Outputs) - n) |-> n + k - 1]
           /\ \A k \in 1..(Len(ret.ChangeIdxs) - 1) : ret.ChangeIdxs[k] < ret.ChangeIdxs[k + 1]
  /\ (ret.op = "PSBT.Serialize") =>
        LET plan == ret.args
            tx == plan.RawTx
        IN /\ Len(tx.TxIn) = Len(plan.Inputs)
           /\ Len(tx.TxOut) = Len(plan.Outputs)
           /\ \A i \in 1..Len(plan.Inputs) :
                 /\ tx.TxIn[i].PreviousOutPoint.Index = plan.Inputs[i].Vout
                 /\ tx.TxIn[i].PreviousOutPoint.Hash
                      = NewOutPointFromStr(plan.Inputs[i].TxID, 0).Hash
           /\ \A j \in 1..Len(plan.Outputs) :
                 /\ tx.TxOut[j].Value = plan.Outputs[j].ValueSats
                 /\ tx.TxOut[j].PkScript = buildOutputScript(plan.Outputs[j].Address)

\* C29 witness: the transaction of a plan with two different inputs and two
\* outputs of different values was read.
C29_Witness ==
  /\ ret.op = "PSBT.Serialize"
  /\ Len(ret.args.Inputs) = 2
  /\ ret.args.Inputs[1] # ret.args.Inputs[2]
  /\ Len(ret.args.Outputs) >= 2
  /\ ret.args.Outputs[1].ValueSats # ret.args.Outputs[2].ValueSats
  /\ ret.args.RawTx.TxOut[1].Value = ret.args.Outputs[1].ValueSats

\* C30 - the dust threshold is the same in every path, for every dust
\* configuration: the candidates of Spend (threshold of buildTransaction) are
\* the candidates of ConsolidateAll (its own threshold), and every confirmed
\* indexed UTXO that passes the dust check of Index is among them.
C30_SameThreshold ==
  /\ filterUTXOs(indexedUTXOs, BuildDust) = filterUTXOs(indexedUTXOs, EffectiveDust)
  /\ \A k \in 1..Len(indexedUTXOs) :
        (indexedUTXOs[k].Confirmed /\ checkDustThreshold(indexedUTXOs[k]))
          => indexedUTXOs[k] \in Elements(filterUTXOs(indexedUTXOs, BuildDust))

====
